---- MODULE Spec2Model ----
(***************************************************************************)
(* Model of the OKX driver client (src/src/mod.rs, src/src/http.rs):       *)
(* the streaming-first / REST-fallback cancellation protocol, the paged    *)
(* fetches of open orders and trades, the single-request fetches, the      *)
(* chunked REST batch cancel, order placement, and the size conversions of *)
(* an instrument (src/src/api_structs.rs).                                 *)
(*                                                                         *)
(* One driver call is followed from its start to its return.  Every await  *)
(* of the code is a position of the call (pc); the answer of the exchange  *)
(* or of the streaming channel to the awaited request is the input of the  *)
(* action that resumes the call.                                           *)
(***************************************************************************)
EXTENDS Integers, Sequences, FiniteSets, TLC

VARIABLES
    book,           \* exchange side: how many open orders belong to instrument "i1"
    served,         \* exchange side: how many open orders it has served to the call
    op,             \* the driver operation being executed ("none" before a call)
    pc,             \* the await the call is parked at, "idle" or "done"
    pair,           \* argument: the pair of the call
    order_id,       \* argument of cancel_order_by_id
    inst_id,        \* local: the instrument id resolved from the pair
    req,            \* argument of open_order
    params,         \* paginated fetch: the cursor parameter (<<>> when not set)
    orders,         \* rest_fetch_open_orders: the orders accumulated so far
    trades,         \* rest_fetch_trades: the trades accumulated so far
    order_ids,      \* cancel_all: ids of the open orders of the instrument
    rco_ids,        \* rest_cancel_orders: its order_ids argument
    chunk_res,      \* rest_cancel_orders: outcome of every chunk request ("pending" while in flight)
    ws_res,         \* history: what the streaming call returned
    rest_res,       \* history: what the REST cancel call returned
    answers,        \* history: the exchange's answers to the awaited single REST requests, in order
    fetch_res,      \* history: what the REST fetch function returned
    calls,          \* history: the request functions the call has entered, in order
    reqs,           \* history: every request handed to the exchange, in issue order
    result,         \* the value the driver call returned
    instrument,     \* conversion: the instrument (self)
    amount,         \* to_exchange_size: its amount argument
    size_,          \* to_internal_amount: its size argument
    price,          \* conversion: its price argument
    conv,           \* conversion: the Option<Decimal> returned (<<>> is None)
    input,          \* the argument of the last pure function applied (<<>> before one)
    output,         \* the value that function returned
    pending,        \* correlator: the pending-request table, request id -> waiter
    next_waiter,    \* correlator: the waiter the next registration gets
    inbound,        \* correlator: the inbound messages dispatched so far
    deliveries      \* history: every resolution or failure handed to a waiter

\* the variables of the request correlator
corrVars == <<pending, next_waiter, inbound, deliveries>>

\* the variables no driver call touches: those of the pure functions and of
\* the request correlator
pureVars == <<instrument, amount, size_, price, conv, input, output, corrVars>>

vars == <<book, served, op, pc, pair, order_id, inst_id, req, params, orders, trades,
          order_ids, rco_ids, chunk_res, ws_res, rest_res, answers, fetch_res, calls,
          reqs, result, pureVars>>

----------------------------------------------------------------------------
(* Program constants *)

CANCEL_ORDERS_BATCH_COUNT == 20

FETCH_OPEN_ORDERS_COUNT == 100

FETCH_RECENT_TRADES_COUNT == 100

ONE_DAY_IN_MILLIS == 86400000

(* Bounds of the model *)

\* full pages the exchange serves before it must answer with a short page
MaxFullPages == 1

\* largest number of open orders of instrument "i1" in the exchange's book
MaxMatch == 41

\* order ids a caller may name in cancel_order_by_id
MaxOrderId == 2

----------------------------------------------------------------------------
(* Values *)

Min(a, b) == IF a < b THEN a ELSE b

RECURSIVE Flatten(_)
Flatten(ss) == IF ss = <<>> THEN <<>> ELSE Head(ss) \o Flatten(Tail(ss))

\* the subsequence of seq whose elements are in set, order kept
SelectIds(seq, set) ==
    LET InSet(x) == x \in set IN SelectSeq(seq, InSet)

Range(seq) == {seq[i] : i \in 1..Len(seq)}

\* DriverResult<T>: Ok(val) or Err(err); val is a sequence (<<>> for the unit value)
Ok(v) == [ok |-> TRUE, val |-> v, err |-> ""]

Err(e) == [ok |-> FALSE, val |-> <<>>, err |-> e]

\* a call that has not returned
NoResult == [ok |-> FALSE, val |-> <<>>, err |-> "pending"]

\* result of ws_cancel_orders: Ok((cancelled, not_cancelled)) or Err(err)
WsOk(c, nc) == [ok |-> TRUE, val |-> c, nc |-> nc, err |-> ""]

WsErr(e) == [ok |-> FALSE, val |-> <<>>, nc |-> <<>>, err |-> e]

WsNoResult == WsErr("pending")

IdempotentErrors == {"OrderNotFound", "OrderAlreadyCancelled", "OrderAlreadyFilled"}

\* the other failures of a streaming request: timeout, transport failure,
\* venue busy, channel not Online
OtherWsErrors == {"Generic:timeout", "Generic:transport", "Generic:busy", "Generic:not-online"}

\* failure of the HTTP call itself
TransportErrors == {"Http:transport"}

Pairs == {"p1", "p2", "p3"}

\* sCode values of an order result: 0 is success, CodeNotFound, CodeCancelled and
\* CodeFilled are the three "no longer cancellable" codes, CodeOther any other failure
CodeNotFound == 1

CodeCancelled == 2

CodeFilled == 3

CodeOther == 4

SCodes == {0, CodeNotFound, CodeCancelled, CodeFilled, CodeOther}

OrderResult(id, code) == [order_id |-> id, code |-> code]

----------------------------------------------------------------------------
(* Collaborators of the client *)

\* InstrumentConverter::find_instrument(pair).map(id): <<>> is None
find_instrument(p) ==
    CASE p = "p1" -> <<"i1">>
      [] p = "p2" -> <<"i2">>
      [] OTHER    -> <<>>

\* OrderResult::validate: Ok for sCode 0, the mapped error otherwise
validate(r) ==
    CASE r.code = 0             -> Ok(<<>>)
      [] r.code = CodeNotFound  -> Err("OrderNotFound")
      [] r.code = CodeCancelled -> Err("OrderAlreadyCancelled")
      [] r.code = CodeFilled    -> Err("OrderAlreadyFilled")
      [] OTHER                  -> Err("Generic:order-error")

----------------------------------------------------------------------------
(* Requests handed to the exchange *)

\* one request: ch is "ws" or "rest", path the endpoint, ids the order ids it
\* names, cursor the cursor parameter of a page request: <<>> when absent, else
\* << <<key, value>> >> with key "before" or "after"
Req(ch, path, inst, ids, cursor) ==
    [ch |-> ch, path |-> path, inst |-> inst, ids |-> ids, cursor |-> cursor]

WsCancelReq(id, inst) == Req("ws", "cancel-order", inst, <<id>>, <<>>)

WsBatchCancelReq(ids, inst) == Req("ws", "batch-cancel-orders", inst, ids, <<>>)

RestCancelReq(id, inst) == Req("rest", "/api/v5/trade/cancel-order", inst, <<id>>, <<>>)

RestBatchCancelReq(ids, inst) == Req("rest", "/api/v5/trade/cancel-batch-orders", inst, ids, <<>>)

OrdersPendingReq(cursor) == Req("rest", "/api/v5/trade/orders-pending", "", <<>>, cursor)

IsRestCancel(r) ==
    r.ch = "rest" /\ r.path \in {"/api/v5/trade/cancel-order", "/api/v5/trade/cancel-batch-orders"}

IsWsCancel(r) == r.ch = "ws" /\ r.path \in {"cancel-order", "batch-cancel-orders"}

----------------------------------------------------------------------------
(* cancel_order_by_id *)

\* faulty variant: only OrderNotFound is returned as it is
CancelOrderByIdMatchOnlyNotFound(res) ==
    IF res.ok THEN "ok"
    ELSE IF res.err \in {"OrderNotFound"} THEN "same"
         ELSE "fallback"

\* faulty variant: every streaming error is returned, the REST fallback is never taken
CancelOrderByIdMatchNoFallback(res) == IF res.ok THEN "ok" ELSE "same"

\* the match on the streaming result: "ok" returns Ok(()), "same" returns the
\* streaming result itself, "fallback" goes to the REST cancel
CancelOrderByIdMatch(res) ==
    IF res.ok THEN "ok"
    ELSE IF res.err \in {"OrderNotFound", "OrderAlreadyCancelled", "OrderAlreadyFilled"}
         THEN "same"
         ELSE "fallback"

\* faulty variant: the fallback goes through the streaming channel again
FallbackCancelReqOverWs(id, inst) == WsCancelReq(id, inst)

\* the request of the REST fallback for the call's order and instrument
FallbackCancelReq(id, inst) == RestCancelReq(id, inst)

\* faulty variant: the fallback turns the three idempotent errors into success
FallbackResultAbsorbed(rest) ==
    IF ~rest.ok /\ rest.err \in IdempotentErrors THEN Ok(<<>>) ELSE rest

\* the fallback arm's value: the result of rest_cancel_order_by_id as it is
FallbackResult(rest) == rest

\* faulty variant: missing acknowledgment data gives the error of a failed order result
RestCancelOrderByIdResultSameError(resp) ==
    IF ~resp.call.ok THEN Err(resp.call.err)
    ELSE IF resp.data # <<>> /\ resp.data[1] # <<>>
         THEN validate(resp.data[1][Len(resp.data[1])])
         ELSE validate(OrderResult(0, CodeOther))

\* what rest_cancel_order_by_id makes of the answer to its POST: resp.call is the
\* result of the call itself, resp.data the envelope's data (<<>> is None,
\* <<list>> is Some(list))
RestCancelOrderByIdResult(resp) ==
    IF ~resp.call.ok THEN Err(resp.call.err)
    ELSE IF resp.data # <<>>
         THEN LET order_results == resp.data[1] IN
              IF order_results = <<>>
              THEN Err("Generic:no-order-result")
              ELSE validate(order_results[Len(order_results)])
         ELSE Err("Generic:empty-cancel-response")

\* the answers the exchange may give to a single REST cancel
RestCancelResponses(id) ==
       {[call |-> Err(e), data |-> <<>>] : e \in TransportErrors}
  \cup {[call |-> Ok(<<>>), data |-> <<>>]}
  \cup {[call |-> Ok(<<>>), data |-> << <<>> >>]}
  \cup {[call |-> Ok(<<>>), data |-> << <<OrderResult(id, c)>> >>] : c \in SCodes}
  \cup {[call |-> Ok(<<>>), data |-> << <<OrderResult(id, c), OrderResult(id, d)>> >>] :
            c \in {0, CodeOther}, d \in SCodes}

\* the results ws_cancel_order_by_id may return
WsCancelResults == {Ok(<<>>)} \cup {Err(e) : e \in IdempotentErrors \cup OtherWsErrors}

CancelOrderById(p, id) ==
    /\ pc = "idle"
    /\ op' = "cancel_order_by_id"
    /\ pair' = p
    /\ order_id' = id
    /\ IF find_instrument(p) = <<>>
       THEN /\ result' = Err("NotSupportedSymbol")
            /\ pc' = "done"
            /\ UNCHANGED <<inst_id, calls, reqs>>
       ELSE /\ inst_id' = find_instrument(p)[1]
            /\ calls' = Append(calls, "ws_cancel_order_by_id")
            /\ reqs' = Append(reqs, WsCancelReq(id, find_instrument(p)[1]))
            /\ pc' = "ws_cancel_order_by_id"
            /\ UNCHANGED result
    /\ UNCHANGED <<book, served, params, orders, order_ids, rco_ids, chunk_res,
                   ws_res, rest_res>>
    /\ UNCHANGED <<req, trades, answers, fetch_res, pureVars>>

WsCancelOrderReturns(res) ==
    /\ pc = "ws_cancel_order_by_id"
    /\ ws_res' = [ok |-> res.ok, val |-> <<>>, nc |-> <<>>, err |-> res.err]
    /\ CASE CancelOrderByIdMatch(res) = "ok" ->
               /\ result' = Ok(<<>>)
               /\ pc' = "done"
               /\ UNCHANGED <<calls, reqs>>
         [] CancelOrderByIdMatch(res) = "same" ->
               /\ result' = res
               /\ pc' = "done"
               /\ UNCHANGED <<calls, reqs>>
         [] OTHER ->
               /\ calls' = Append(calls, "rest_cancel_order_by_id")
               /\ reqs' = Append(reqs, FallbackCancelReq(order_id, inst_id))
               /\ pc' = "rest_cancel_order_by_id"
               /\ UNCHANGED result
    /\ UNCHANGED <<book, served, op, pair, order_id, inst_id, params, orders, order_ids,
                   rco_ids, chunk_res, rest_res>>
    /\ UNCHANGED <<req, trades, answers, fetch_res, pureVars>>

RestCancelOrderReturns(resp) ==
    /\ pc = "rest_cancel_order_by_id"
    /\ answers' = Append(answers, resp)
    /\ rest_res' = RestCancelOrderByIdResult(resp)
    /\ result' = FallbackResult(RestCancelOrderByIdResult(resp))
    /\ pc' = "done"
    /\ UNCHANGED <<book, served, op, pair, order_id, inst_id, params, orders,
                   order_ids, rco_ids, chunk_res, ws_res, calls, reqs>>
    /\ UNCHANGED <<req, trades, fetch_res, pureVars>>

----------------------------------------------------------------------------
(* rest_cancel_orders *)

\* faulty variant: the shorter last chunk is dropped
ChunksDropTail(ids, size) ==
    [c \in 1..(Len(ids) \div size) |-> SubSeq(ids, (c - 1) * size + 1, c * size)]

\* order_ids.chunks(size): consecutive chunks of size ids, the last one shorter
\* when size does not divide the length
Chunks(ids, size) ==
    [c \in 1..((Len(ids) + size - 1) \div size) |->
        SubSeq(ids, (c - 1) * size + 1, Min(c * size, Len(ids)))]

\* the batch requests of one rest_cancel_orders call, one per chunk, in chunk order
ChunkRequests(ids, inst) ==
    [c \in 1..Len(Chunks(ids, CANCEL_ORDERS_BATCH_COUNT)) |->
        RestBatchCancelReq(Chunks(ids, CANCEL_ORDERS_BATCH_COUNT)[c], inst)]

\* outcomes of one chunk request: the call fails ("err"), the envelope has no
\* data ("nodata"), or it lists one order result per id of the chunk, all with
\* sCode 0 ("all_ok") or with sCodes that vary with the id ("mixed")
ChunkOutcomes == {"err", "nodata", "all_ok", "mixed"}

MixedCode(id) == id % 5

\* the answer to a chunk request: call is the result of the POST, data the
\* envelope's data (<<>> is None, <<list>> is Some(list))
ChunkResponse(chunk, outcome) ==
    CASE outcome = "err"    -> [call |-> Err("Http:transport"), data |-> <<>>]
      [] outcome = "nodata" -> [call |-> Ok(<<>>), data |-> <<>>]
      [] outcome = "all_ok" ->
            [call |-> Ok(<<>>),
             data |-> << [i \in 1..Len(chunk) |-> OrderResult(chunk[i], 0)] >>]
      [] OTHER ->
            [call |-> Ok(<<>>),
             data |-> << [i \in 1..Len(chunk) |-> OrderResult(chunk[i], MixedCode(chunk[i]))] >>]

\* faulty variant: only a clean success counts as cancelled
CountsAsCancelledCleanOnly(order_result) == validate(order_result).ok

\* the inner filter_map: whether an order result counts as cancelled
CountsAsCancelled(order_result) ==
    \/ validate(order_result).ok
    \/ validate(order_result).err \in {"OrderNotFound", "OrderAlreadyCancelled", "OrderAlreadyFilled"}

\* the ids of the order results of one answer that count as cancelled
CancelledOf(order_results) ==
    LET kept == SelectSeq(order_results, CountsAsCancelled)
    IN  [i \in 1..Len(kept) |-> kept[i].order_id]

\* the outer filter_map: the ids one chunk's answer contributes
ChunkCancelled(resp) ==
    IF resp.call.ok /\ resp.data # <<>>
    THEN CancelledOf(resp.data[1])
    ELSE <<>>

\* join_all(..).filter_map(..).flatten().collect(): the answers are taken in
\* chunk order whatever the order they arrived in
RestCancelOrdersResult(ids, outcomes) ==
    Ok(Flatten([c \in 1..Len(outcomes) |->
          ChunkCancelled(ChunkResponse(Chunks(ids, CANCEL_ORDERS_BATCH_COUNT)[c], outcomes[c]))]))

\* rest_cancel_orders up to its await: the early return on an empty list, else
\* all chunk requests are issued
RestCancelOrdersCall(ids, inst) ==
    /\ rco_ids' = ids
    /\ calls' = Append(calls, "rest_cancel_orders")
    /\ IF ids = <<>>
       THEN /\ rest_res' = Ok(<<>>)
            /\ result' = Ok(<<>>)
            /\ pc' = "done"
            /\ UNCHANGED <<reqs, chunk_res>>
       ELSE /\ reqs' = reqs \o ChunkRequests(ids, inst)
            /\ chunk_res' = [c \in 1..Len(ChunkRequests(ids, inst)) |-> "pending"]
            /\ pc' = "rest_cancel_orders"
            /\ UNCHANGED <<rest_res, result>>

\* lengths of the id lists handed to rest_cancel_orders by a direct caller
DirectLens ==
    {0, 1, CANCEL_ORDERS_BATCH_COUNT - 1, CANCEL_ORDERS_BATCH_COUNT,
     CANCEL_ORDERS_BATCH_COUNT + 1, 2 * CANCEL_ORDERS_BATCH_COUNT, MaxMatch}

\* a caller's id list of length n: n, n-1, .., 1
DirectIds(n) == [i \in 1..n |-> n + 1 - i]

CallRestCancelOrders(n, inst) ==
    /\ pc = "idle"
    /\ op' = "rest_cancel_orders"
    /\ inst_id' = inst
    /\ RestCancelOrdersCall(DirectIds(n), inst)
    /\ UNCHANGED <<book, served, pair, order_id, params, orders, order_ids, ws_res>>
    /\ UNCHANGED <<req, trades, answers, fetch_res, pureVars>>

\* one chunk request completes; the chunks complete in any order
ChunkReturns(c, outcome) ==
    /\ pc = "rest_cancel_orders"
    /\ c \in DOMAIN chunk_res
    /\ chunk_res[c] = "pending"
    /\ chunk_res' = [chunk_res EXCEPT ![c] = outcome]
    /\ UNCHANGED <<book, served, op, pc, pair, order_id, inst_id, params, orders,
                   order_ids, rco_ids, ws_res, rest_res, calls, reqs, result>>
    /\ UNCHANGED <<req, trades, answers, fetch_res, pureVars>>

\* faulty variant: the join gives up with the first failed chunk (try_join_all)
JoinAllShortCircuit ==
    /\ pc = "rest_cancel_orders"
    /\ \E c \in DOMAIN chunk_res : chunk_res[c] = "err"
    /\ rest_res' = Err("Http:transport")
    /\ result' = Err("Http:transport")
    /\ pc' = "done"
    /\ UNCHANGED <<book, served, op, pair, order_id, inst_id, params, orders, order_ids,
                   rco_ids, chunk_res, ws_res, calls, reqs>>
    /\ UNCHANGED <<req, trades, answers, fetch_res, pureVars>>

\* join_all resolves once every chunk request has completed
JoinAllReturns ==
    /\ pc = "rest_cancel_orders"
    /\ \A c \in DOMAIN chunk_res : chunk_res[c] # "pending"
    /\ rest_res' = RestCancelOrdersResult(rco_ids, chunk_res)
    /\ result' = RestCancelOrdersResult(rco_ids, chunk_res)
    /\ pc' = "done"
    /\ UNCHANGED <<book, served, op, pair, order_id, inst_id, params, orders, order_ids,
                   rco_ids, chunk_res, ws_res, calls, reqs>>
    /\ UNCHANGED <<req, trades, answers, fetch_res, pureVars>>

----------------------------------------------------------------------------
(* rest_fetch_open_orders *)

\* exchange side: the instrument of open order k.  The odd ids below 2 * book
\* belong to "i1", every other order to "i3"
InstOfOrder(k) == IF k % 2 = 1 /\ k < 2 * book THEN "i1" ELSE "i3"

\* exchange side: a page of n pending orders that follows the `start` orders
\* already served
PageOrders(start, n) ==
    [i \in 1..n |-> [order_id |-> start + i, instrument_id |-> InstOfOrder(start + i)]]

\* page lengths the exchange answers with
PageLens == {0, 1, FETCH_OPEN_ORDERS_COUNT - 1, FETCH_OPEN_ORDERS_COUNT}

\* the answers the exchange may give to a page request: call is the result of
\* the GET, code the envelope's code, data its data (<<>> is None)
PageResponses(start) ==
       {[call |-> Err(e), code |-> 0, data |-> <<>>] : e \in TransportErrors}
  \cup {[call |-> Ok(<<>>), code |-> 1, data |-> <<>>]}
  \cup {[call |-> Ok(<<>>), code |-> 0, data |-> <<>>]}
  \cup {[call |-> Ok(<<>>), code |-> 0, data |-> <<PageOrders(start, n)>>] :
            n \in {l \in PageLens :
                     l = FETCH_OPEN_ORDERS_COUNT
                        => start < MaxFullPages * FETCH_OPEN_ORDERS_COUNT}}

\* OkexRestResponse::validate: an error for a nonzero code, else the data
ValidateEnvelope(resp) ==
    IF resp.code # 0 THEN Err("Exchange:code") ELSE Ok(resp.data)

\* get(..).await?.validate()?.unwrap_or_default() of one page request
PendingOrdersOf(resp) ==
    IF ~resp.call.ok THEN Err(resp.call.err)
    ELSE IF ~ValidateEnvelope(resp).ok THEN ValidateEnvelope(resp)
    ELSE IF ValidateEnvelope(resp).val = <<>> THEN Ok(<<>>)
    ELSE Ok(ValidateEnvelope(resp).val[1])

\* faulty variant: the loop ends only with an empty page
LastPageOnlyEmpty(fetched_count) == fetched_count = 0

\* the loop's exit test
LastPage(fetched_count) == fetched_count < FETCH_OPEN_ORDERS_COUNT

\* faulty variant: the cursor is the id of the first order fetched
NextCursorFirst(all_orders) ==
    IF all_orders = <<>> THEN <<>> ELSE << <<"before", all_orders[1].order_id>> >>

\* the cursor of the next page request: "before" = the id of the last order fetched
NextCursor(all_orders) ==
    IF all_orders = <<>> THEN <<>>
    ELSE << <<"before", all_orders[Len(all_orders)].order_id>> >>

\* InstrumentConverter::find_pair(instrument_id): <<>> is None
find_pair(inst) ==
    CASE inst = "i1" -> <<"p1">>
      [] inst = "i2" -> <<"p2">>
      [] OTHER       -> <<>>

\* fetch_open_orders: the filter_map of the fetched orders to RawOrder; an order
\* whose instrument id has no pair makes the closure return None
RawOrdersOf(all_orders) ==
    LET HasPair(order) == find_pair(order.instrument_id) # <<>>
        kept == SelectSeq(all_orders, HasPair)
    IN  [i \in 1..Len(kept) |->
            [order_id |-> kept[i].order_id, pair |-> find_pair(kept[i].instrument_id)[1]]]

FetchOpenOrders ==
    /\ pc = "idle"
    /\ op' = "fetch_open_orders"
    /\ calls' = Append(calls, "rest_fetch_open_orders")
    /\ reqs' = Append(reqs, OrdersPendingReq(<<>>))
    /\ pc' = "rest_fetch_open_orders"
    /\ UNCHANGED <<book, served, pair, order_id, inst_id, params, orders, order_ids,
                   rco_ids, chunk_res, ws_res, rest_res, result>>
    /\ UNCHANGED <<req, trades, answers, fetch_res, pureVars>>

----------------------------------------------------------------------------
(* cancel_all *)

\* faulty variant: the orders of every instrument are kept
OrderIdsOfUnfiltered(all_orders, inst) ==
    [i \in 1..Len(all_orders) |-> all_orders[i].order_id]

\* the filter_map over the fetched orders: the ids of the orders of instrument inst
OrderIdsOf(all_orders, inst) ==
    LET OfInst(order) == order.instrument_id = inst
        kept == SelectSeq(all_orders, OfInst)
    IN  [i \in 1..Len(kept) |-> kept[i].order_id]

\* faulty variant: no early return
NoOrdersToCancelNever(ids) == FALSE

\* the early return of cancel_all when there is no order to cancel
NoOrdersToCancel(ids) == ids = <<>>

\* the ids handed to ws_cancel_orders
WsBatchIds(ids) == ids

\* faulty variant: a partial success sends the whole id set to REST
NotCancelledOrderIdsWhole(res, ids) ==
    IF res.ok /\ res.nc = <<>> THEN <<>> ELSE <<ids>>

\* faulty variant: a streaming error ends the call without the REST fallback
NotCancelledOrderIdsNoFallback(res, ids) ==
    IF res.ok /\ res.nc # <<>> THEN <<res.nc>> ELSE <<>>

\* the match on the streaming batch result: <<>> when cancel_all returns the
\* cancelled ids at once, else <<ids>>, the ids handed to rest_cancel_orders
NotCancelledOrderIds(res, ids) ==
    IF res.ok /\ res.nc = <<>> THEN <<>>
    ELSE IF res.ok THEN <<res.nc>>
    ELSE <<ids>>

\* errors ws_cancel_orders may return
BatchWsErrors == {"Generic:timeout", "Generic:not-online"}

\* streaming channel: the sets of ids it may confirm out of ids
ConfirmedSets(ids) ==
    IF ids = <<>> THEN {{}}
    ELSE {{}, Range(ids), {ids[1]}, {ids[i] : i \in {j \in 1..Len(ids) : j % 2 = 0}},
          Range(ids) \ {ids[Len(ids)]}}

\* the results ws_cancel_orders may return for ids: an error, or the ids split
\* into the confirmed ones and the ones not cancelled
WsCancelOrdersResults(ids) ==
       {WsErr(e) : e \in BatchWsErrors}
  \cup {WsOk(SelectIds(ids, C), SelectIds(ids, Range(ids) \ C)) : C \in ConfirmedSets(ids)}

CancelAll(p) ==
    /\ pc = "idle"
    /\ op' = "cancel_all"
    /\ pair' = p
    /\ IF find_instrument(p) = <<>>
       THEN /\ result' = Err("NotSupportedSymbol")
            /\ pc' = "done"
            /\ UNCHANGED <<inst_id, calls, reqs>>
       ELSE /\ inst_id' = find_instrument(p)[1]
            /\ calls' = Append(calls, "rest_fetch_open_orders")
            /\ reqs' = Append(reqs, OrdersPendingReq(<<>>))
            /\ pc' = "rest_fetch_open_orders"
            /\ UNCHANGED result
    /\ UNCHANGED <<book, served, order_id, params, orders, order_ids, rco_ids, chunk_res,
                   ws_res, rest_res>>
    /\ UNCHANGED <<req, trades, answers, fetch_res, pureVars>>

\* a page request of rest_fetch_open_orders completes: the loop goes on with the
\* next page, or the fetch returns and its caller (cancel_all or
\* fetch_open_orders) goes on
OrdersPageReturns(resp) ==
    /\ pc = "rest_fetch_open_orders"
    /\ served' = IF resp.data = <<>> THEN served ELSE served + Len(resp.data[1])
    /\ answers' = Append(answers, resp)
    /\ IF ~PendingOrdersOf(resp).ok
       THEN /\ fetch_res' = Err(PendingOrdersOf(resp).err)
            /\ result' = Err(PendingOrdersOf(resp).err)
            /\ pc' = "done"
            /\ orders' = <<>>
            /\ UNCHANGED <<params, order_ids, calls, reqs>>
       ELSE LET all_orders == orders \o PendingOrdersOf(resp).val IN
            IF ~LastPage(Len(PendingOrdersOf(resp).val))
            THEN /\ orders' = all_orders
                 /\ params' = NextCursor(all_orders)
                 /\ reqs' = Append(reqs, OrdersPendingReq(NextCursor(all_orders)))
                 /\ UNCHANGED <<pc, order_ids, calls, result, fetch_res>>
            ELSE /\ orders' = <<>>
                 /\ fetch_res' = Ok(all_orders)
                 /\ UNCHANGED params
                 /\ IF op = "fetch_open_orders"
                    THEN /\ result' = Ok(RawOrdersOf(all_orders))
                         /\ pc' = "done"
                         /\ UNCHANGED <<order_ids, calls, reqs>>
                    ELSE /\ order_ids' = OrderIdsOf(all_orders, inst_id)
                         /\ IF NoOrdersToCancel(OrderIdsOf(all_orders, inst_id))
                            THEN /\ result' = Ok(<<>>)
                                 /\ pc' = "done"
                                 /\ UNCHANGED <<calls, reqs>>
                            ELSE /\ calls' = Append(calls, "ws_cancel_orders")
                                 /\ reqs' = Append(reqs,
                                         WsBatchCancelReq(
                                             WsBatchIds(OrderIdsOf(all_orders, inst_id)),
                                             inst_id))
                                 /\ pc' = "ws_cancel_orders"
                                 /\ UNCHANGED result
    /\ UNCHANGED <<book, op, pair, order_id, inst_id, rco_ids, chunk_res, ws_res, rest_res>>
    /\ UNCHANGED <<req, trades, pureVars>>

WsCancelOrdersReturns(res) ==
    /\ pc = "ws_cancel_orders"
    /\ ws_res' = res
    /\ IF NotCancelledOrderIds(res, order_ids) = <<>>
       THEN /\ result' = Ok(res.val)
            /\ pc' = "done"
            /\ UNCHANGED <<rco_ids, chunk_res, rest_res, calls, reqs>>
       ELSE RestCancelOrdersCall(NotCancelledOrderIds(res, order_ids)[1], inst_id)
    /\ UNCHANGED <<book, served, op, pair, order_id, inst_id, params, orders, order_ids>>
    /\ UNCHANGED <<req, trades, answers, fetch_res, pureVars>>

----------------------------------------------------------------------------
(* rest_fetch_trades, fetch_trades_since, fetch_all_trades_since *)

\* Utc::now().timestamp_millis() of the call
Now == 3 * ONE_DAY_IN_MILLIS

\* GET /api/v5/trade/fills: inst is "" when no instId parameter is sent
FillsReq(inst, cursor) == Req("rest", "/api/v5/trade/fills", inst, <<>>, cursor)

\* exchange side: the fields of trade k of its trade history
BillIdOf(k) == 1000 + k

InstOfTrade(k) == CASE k % 3 = 1 -> "i1" [] k % 3 = 2 -> "i2" [] OTHER -> "i3"

CreatedAtOf(k) ==
    CASE k % 4 = 0 -> Now - ONE_DAY_IN_MILLIS - 1
      [] k % 4 = 1 -> Now - ONE_DAY_IN_MILLIS
      [] k % 4 = 2 -> Now
      [] OTHER     -> Now + 1

FeeOf(k) == (k % 3) - 1

\* exchange side: a page of n trades that follows the `start` trades already
\* served; with an instId parameter every trade is of that instrument
TradesPage(start, n, inst) ==
    [i \in 1..n |->
        [bill_id       |-> BillIdOf(start + i),
         trade_id      |-> start + i,
         instrument_id |-> IF inst # "" THEN inst ELSE InstOfTrade(start + i),
         created_at    |-> CreatedAtOf(start + i),
         fee           |-> FeeOf(start + i)]]

TradePageLens == {0, 1, FETCH_RECENT_TRADES_COUNT - 1, FETCH_RECENT_TRADES_COUNT}

\* the answers the exchange may give to a fills page request made after start
\* trades were fetched; a page may begin with the last trade of the page before
TradePageResponses(start, inst) ==
       {[call |-> Err(e), code |-> 0, data |-> <<>>] : e \in TransportErrors}
  \cup {[call |-> Ok(<<>>), code |-> 1, data |-> <<>>]}
  \cup {[call |-> Ok(<<>>), code |-> 0, data |-> <<>>]}
  \cup {[call |-> Ok(<<>>), code |-> 0, data |-> <<TradesPage(start - o, n, inst)>>] :
            o \in {x \in {0, 1} : x <= start},
            n \in {l \in TradePageLens :
                     l = FETCH_RECENT_TRADES_COUNT
                        => start < MaxFullPages * FETCH_RECENT_TRADES_COUNT}}

\* get(..).await?.validate()?.unwrap_or_default() of one fills page request
FetchedTradesOf(resp) ==
    IF ~resp.call.ok THEN Err(resp.call.err)
    ELSE IF ~ValidateEnvelope(resp).ok THEN ValidateEnvelope(resp)
    ELSE IF ValidateEnvelope(resp).val = <<>> THEN Ok(<<>>)
    ELSE Ok(ValidateEnvelope(resp).val[1])

\* the loop's exit test
LastTradesPage(fetched_count) == fetched_count < FETCH_RECENT_TRADES_COUNT

\* the cursor set at the top of the loop: "after" = the bill id of the last
\* trade fetched, nothing while no trade was fetched
TradesCursor(all_trades) ==
    IF all_trades = <<>> THEN <<>>
    ELSE << <<"after", all_trades[Len(all_trades)].bill_id>> >>

\* the filter of both operations: trades of the last 24 hours
InWindow(trade) ==
    LET end_time   == Now
        start_time == end_time - ONE_DAY_IN_MILLIS
    IN  trade.created_at >= start_time /\ trade.created_at <= end_time

\* fetch_trades_since: the filter_map of the fetched trades to RawTrade
RawTradesSince(all_trades, p) ==
    LET kept == SelectSeq(all_trades, InWindow)
    IN  [i \in 1..Len(kept) |->
            [trade_id |-> kept[i].trade_id, pair |-> p, fee_amount |-> <<0 - kept[i].fee>>]]

\* fetch_all_trades_since: the filter_map of the fetched trades to RawTrade; a
\* trade whose instrument id has no pair makes the closure return None
RawTradesAll(all_trades) ==
    LET Kept(trade) == InWindow(trade) /\ find_pair(trade.instrument_id) # <<>>
        kept == SelectSeq(all_trades, Kept)
    IN  [i \in 1..Len(kept) |->
            [trade_id |-> kept[i].trade_id, pair |-> find_pair(kept[i].instrument_id)[1],
             fee_amount |-> <<kept[i].fee>>]]

\* faulty variant: the trades are requested before the pair is looked up
FetchTradesSinceFetchFirst(p) ==
    /\ pc = "idle"
    /\ op' = "fetch_trades_since"
    /\ pair' = p
    /\ inst_id' = IF find_instrument(p) = <<>> THEN "" ELSE find_instrument(p)[1]
    /\ calls' = Append(calls, "rest_fetch_trades")
    /\ reqs' = Append(reqs, FillsReq("", TradesCursor(<<>>)))
    /\ pc' = "rest_fetch_trades"
    /\ UNCHANGED <<book, served, order_id, params, orders, order_ids, rco_ids, chunk_res,
                   ws_res, rest_res, result>>
    /\ UNCHANGED <<req, trades, answers, fetch_res, pureVars>>

FetchTradesSince(p) ==
    /\ pc = "idle"
    /\ op' = "fetch_trades_since"
    /\ pair' = p
    /\ IF find_instrument(p) = <<>>
       THEN /\ result' = Err("NotSupportedSymbol")
            /\ pc' = "done"
            /\ UNCHANGED <<inst_id, calls, reqs>>
       ELSE /\ inst_id' = find_instrument(p)[1]
            /\ calls' = Append(calls, "rest_fetch_trades")
            /\ reqs' = Append(reqs, FillsReq(find_instrument(p)[1], TradesCursor(<<>>)))
            /\ pc' = "rest_fetch_trades"
            /\ UNCHANGED result
    /\ UNCHANGED <<book, served, order_id, params, orders, order_ids, rco_ids, chunk_res,
                   ws_res, rest_res>>
    /\ UNCHANGED <<req, trades, answers, fetch_res, pureVars>>

FetchAllTradesSince ==
    /\ pc = "idle"
    /\ op' = "fetch_all_trades_since"
    /\ calls' = Append(calls, "rest_fetch_trades")
    /\ reqs' = Append(reqs, FillsReq("", TradesCursor(<<>>)))
    /\ pc' = "rest_fetch_trades"
    /\ UNCHANGED <<book, served, pair, order_id, inst_id, params, orders, order_ids,
                   rco_ids, chunk_res, ws_res, rest_res, result>>
    /\ UNCHANGED <<req, trades, answers, fetch_res, pureVars>>

\* a page request of rest_fetch_trades completes: the loop goes on with the
\* next page, or the fetch returns and its caller maps the trades
TradesPageReturns(resp) ==
    /\ pc = "rest_fetch_trades"
    /\ served' = IF resp.data = <<>> THEN served ELSE served + Len(resp.data[1])
    /\ answers' = Append(answers, resp)
    /\ IF ~FetchedTradesOf(resp).ok
       THEN /\ fetch_res' = Err(FetchedTradesOf(resp).err)
            /\ result' = Err(FetchedTradesOf(resp).err)
            /\ pc' = "done"
            /\ trades' = <<>>
            /\ UNCHANGED <<params, reqs>>
       ELSE LET all_trades == trades \o FetchedTradesOf(resp).val IN
            IF ~LastTradesPage(Len(FetchedTradesOf(resp).val))
            THEN /\ trades' = all_trades
                 /\ params' = TradesCursor(all_trades)
                 /\ reqs' = Append(reqs, FillsReq(inst_id, TradesCursor(all_trades)))
                 /\ UNCHANGED <<pc, result, fetch_res>>
            ELSE /\ trades' = <<>>
                 /\ fetch_res' = Ok(all_trades)
                 /\ result' = IF op = "fetch_trades_since"
                              THEN Ok(RawTradesSince(all_trades, pair))
                              ELSE Ok(RawTradesAll(all_trades))
                 /\ pc' = "done"
                 /\ UNCHANGED <<params, reqs>>
    /\ UNCHANGED <<book, op, pair, order_id, inst_id, orders, order_ids, rco_ids, chunk_res,
                   ws_res, rest_res, calls>>
    /\ UNCHANGED <<req, pureVars>>

----------------------------------------------------------------------------
(* Decimal *)

\* Decimal values are exact fractions <<numerator, denominator>> in lowest
\* terms with a positive denominator
Abs(n) == IF n < 0 THEN 0 - n ELSE n

RECURSIVE GCD(_, _)
GCD(a, b) == IF b = 0 THEN a ELSE GCD(b, a % b)

Dec(n, d) ==
    LET g == GCD(Abs(n), Abs(d))
        sgn == IF d < 0 THEN 0 - 1 ELSE 1
    IN  <<sgn * (n \div g), sgn * (d \div g)>>

Zero == Dec(0, 1)

\* a division by zero: the Decimal division panics
DivisionFault == <<0, 0>>

is_zero(a) == a[1] = 0 /\ a[2] # 0

DecMul(a, b) ==
    IF a = DivisionFault \/ b = DivisionFault THEN DivisionFault
    ELSE Dec(a[1] * b[1], a[2] * b[2])

DecDiv(a, b) ==
    IF a = DivisionFault \/ b = DivisionFault \/ b[1] = 0 THEN DivisionFault
    ELSE Dec(a[1] * b[2], a[2] * b[1])

DecAdd(a, b) == Dec(a[1] * b[2] + b[1] * a[2], a[2] * b[2])

DecSub(a, b) == Dec(a[1] * b[2] - b[1] * a[2], a[2] * b[2])

DecLeq(a, b) == a[1] * b[2] <= b[1] * a[2]

One == Dec(1, 1)

\* Option<Decimal>::unwrap_or_default
unwrap_or_default(o) == IF o = <<>> THEN Zero ELSE o[1]

----------------------------------------------------------------------------
(* rest_fetch_balances, rest_fetch_account_bills, get_position_mode *)

AccountBalanceReq == Req("rest", "/api/v5/account/balance", "", <<>>, <<>>)

AccountBillsReq == Req("rest", "/api/v5/account/bills", "", <<>>, <<>>)

AccountConfigReq == Req("rest", "/api/v5/account/config", "", <<>>, <<>>)

\* the answers the exchange may give to a single fetch whose data is a list:
\* items are the records it lists when it lists any
ListResponses(items) ==
       {[call |-> Err(e), code |-> 0, data |-> <<>>] : e \in TransportErrors}
  \cup {[call |-> Ok(<<>>), code |-> c, data |-> d] :
            c \in {0, 1},
            d \in {<<>>, << <<>> >>, << <<items[1]>> >>, << SubSeq(items, 1, 2) >>, <<items>>}}

\* exchange side: the account's balances, bills and configuration
OkexBalance(ccy, cash_bal, avail_bal) ==
    [ccy |-> ccy, cash_bal |-> cash_bal, avail_bal |-> avail_bal]

BalancesItems ==
    << [details |-> <<OkexBalance("btc", <<Dec(5, 1)>>, <<Dec(3, 1)>>)>>],
       [details |-> <<OkexBalance("btc", <<Dec(5, 1)>>, <<Dec(3, 1)>>),
                      OkexBalance("usdt", <<>>, <<Dec(2, 1)>>),
                      OkexBalance("eth", <<Dec(2, 1)>>, <<>>)>>] >>

OkexBillResponse(ts, type_, ord_id, trade_id) ==
    [ts |-> ts, type_ |-> type_, order_id |-> ord_id, trade_id |-> trade_id]

\* bill type 8 is a funding fee, 2 a trade
BillsItems ==
    << OkexBillResponse(1, 8, <<"o1">>, <<"t1">>),
       OkexBillResponse(2, 2, <<"o2">>, <<"t2">>),
       OkexBillResponse(3, 8, <<"o3">>, <<>>) >>

ConfigItems == << [pos_mode |-> "long_short_mode"], [pos_mode |-> "net_mode"] >>

\* get(..).await?.validate()?: Ok(data) with data <<>> for None, <<list>> for Some(list)
ValidatedData(resp) ==
    IF ~resp.call.ok THEN Err(resp.call.err) ELSE ValidateEnvelope(resp)

\* .unwrap_or_default().pop().ok_or_else(..)?.details
RestFetchBalancesResult(resp) ==
    IF ~ValidatedData(resp).ok THEN ValidatedData(resp)
    ELSE LET balances == IF ValidatedData(resp).val = <<>> THEN <<>>
                         ELSE ValidatedData(resp).val[1]
         IN  IF balances = <<>> THEN Err("Balance:Failed fo fetch balances")
             ELSE Ok(balances[Len(balances)].details)

\* .ok_or_else(|| parse_failure("No bill response"))
RestFetchAccountBillsResult(resp) ==
    IF ~ValidatedData(resp).ok THEN ValidatedData(resp)
    ELSE IF ValidatedData(resp).val = <<>> THEN Err("ParseFailure:No bill response")
    ELSE Ok(ValidatedData(resp).val[1])

\* .and_then(|mut res| res.pop()).map(|config| config.pos_mode).ok_or_else(..)
GetPositionModeResult(resp) ==
    IF ~ValidatedData(resp).ok THEN ValidatedData(resp)
    ELSE IF ValidatedData(resp).val = <<>> \/ ValidatedData(resp).val[1] = <<>>
         THEN Err("ParseFailure:No config response")
    ELSE LET res == ValidatedData(resp).val[1] IN Ok(<<res[Len(res)].pos_mode>>)

\* From<OkexBalance> for RawBalance (last_updated, a clock reading, is left out)
RawBalanceFrom(balance) ==
    LET total == unwrap_or_default(balance.cash_bal)
        free == unwrap_or_default(balance.avail_bal)
    IN  [symbol |-> balance.ccy, free |-> free, used |-> DecSub(total, free), total |-> total]

\* faulty variant: the collateral is normalized as a spending balance is
RawCollateralFromAvailable(balance) ==
    LET total == unwrap_or_default(balance.cash_bal)
        free == unwrap_or_default(balance.avail_bal)
    IN  [symbol |-> balance.ccy, free |-> free, used |-> DecSub(total, free), total |-> total]

\* From<OkexBalance> for RawCollateral
RawCollateralFrom(balance) ==
    [symbol |-> balance.ccy,
     free |-> unwrap_or_default(balance.cash_bal),
     used |-> Zero,
     total |-> unwrap_or_default(balance.cash_bal)]

\* From<OkexBalancesUpdate> for Vec<RawBalance>
RawBalancesFromUpdate(updates) ==
    [i \in 1..Len(updates.details) |->
        LET balance == updates.details[i]
            total == unwrap_or_default(balance.cash_bal)
            free == unwrap_or_default(balance.avail_bal)
        IN  [symbol |-> balance.ccy, free |-> free, used |-> DecSub(total, free),
             total |-> total]]

\* a panic: the call gives its caller no value
Panic(msg) == [ok |-> FALSE, val |-> <<>>, err |-> "panic:" \o msg]

Panics ==
    {Panic("No Kinesis data available"), Panic("called Option::unwrap() on a None value")}

\* OkexBillResponse::to_kinesis_transaction: the fields that depend on the bill
to_kinesis_transaction(bill) ==
    [created_at |-> bill.ts, trade_id |-> bill.trade_id[1], order_id |-> bill.order_id[1],
     transaction_type |-> "FundingFee"]

IsFundingFee(bill) == bill.type_ = 8

\* fetch_funding_rate_transactions from the value of rest_fetch_account_bills
FetchFundingRateTransactionsResult(res) ==
    IF ~res.ok THEN Panic("No Kinesis data available")
    ELSE LET funding == SelectSeq(res.val, IsFundingFee) IN
         IF \E i \in 1..Len(funding) :
                funding[i].trade_id = <<>> \/ funding[i].order_id = <<>>
         THEN Panic("called Option::unwrap() on a None value")
         ELSE Ok(<< [i \in 1..Len(funding) |-> to_kinesis_transaction(funding[i])] >>)

\* what the driver operation o makes of the value res of its fetch function
DriverResultOf(o, res) ==
    CASE o = "fetch_balances" ->
            IF res.ok THEN Ok([i \in 1..Len(res.val) |-> RawBalanceFrom(res.val[i])])
            ELSE res
      [] o = "fetch_collateral_balances" ->
            IF res.ok THEN Ok([i \in 1..Len(res.val) |-> RawCollateralFrom(res.val[i])])
            ELSE res
      [] o = "fetch_funding_rate_transactions" -> FetchFundingRateTransactionsResult(res)
      [] OTHER -> res

\* the operation o calls a fetch of one request: f is the function, r its request
SingleFetchCall(o, f, r) ==
    /\ pc = "idle"
    /\ op' = o
    /\ calls' = Append(calls, f)
    /\ reqs' = Append(reqs, r)
    /\ pc' = f
    /\ UNCHANGED <<book, served, pair, order_id, inst_id, params, orders, order_ids,
                   rco_ids, chunk_res, ws_res, rest_res, result>>
    /\ UNCHANGED <<req, trades, answers, fetch_res, pureVars>>

\* the fetch of one request returns res for the answer resp
SingleFetchReturns(f, resp, res) ==
    /\ pc = f
    /\ answers' = Append(answers, resp)
    /\ fetch_res' = res
    /\ result' = DriverResultOf(op, res)
    /\ pc' = IF DriverResultOf(op, res) \in Panics THEN "aborted" ELSE "done"
    /\ UNCHANGED <<book, served, op, pair, order_id, inst_id, params, orders, order_ids,
                   rco_ids, chunk_res, ws_res, rest_res, calls, reqs>>
    /\ UNCHANGED <<req, trades, pureVars>>

CallRestFetchBalances ==
    SingleFetchCall("rest_fetch_balances", "rest_fetch_balances", AccountBalanceReq)

FetchBalances == SingleFetchCall("fetch_balances", "rest_fetch_balances", AccountBalanceReq)

FetchCollateralBalances ==
    SingleFetchCall("fetch_collateral_balances", "rest_fetch_balances", AccountBalanceReq)

FetchFundingRateTransactions ==
    SingleFetchCall("fetch_funding_rate_transactions", "rest_fetch_account_bills",
                    AccountBillsReq)

BalancesReturns(resp) ==
    SingleFetchReturns("rest_fetch_balances", resp, RestFetchBalancesResult(resp))

CallRestFetchAccountBills ==
    SingleFetchCall("rest_fetch_account_bills", "rest_fetch_account_bills", AccountBillsReq)

AccountBillsReturns(resp) ==
    SingleFetchReturns("rest_fetch_account_bills", resp, RestFetchAccountBillsResult(resp))

CallGetPositionMode ==
    SingleFetchCall("get_position_mode", "get_position_mode", AccountConfigReq)

PositionModeReturns(resp) ==
    SingleFetchReturns("get_position_mode", resp, GetPositionModeResult(resp))

----------------------------------------------------------------------------
(* open_order *)

NoRequest == [pair |-> "", client_id |-> 0]

\* the order requests a caller places
OrderRequests == {[pair |-> p, client_id |-> c] : p \in {"p1", "p3"}, c \in {1, 2}}

WsOrderReq(r) == Req("ws", "order", "", <<r.client_id>>, <<>>)

RestOrderReq(r) == Req("rest", "/api/v5/trade/order", "", <<r.client_id>>, <<>>)

\* the results ws_open_order may return
WsOpenOrderResults(r) ==
       {Ok(<<[order_id |-> r.client_id, pair |-> r.pair]>>)}
  \cup {Err(e) : e \in OtherWsErrors \cup {"NotSupportedSymbol"}}

OpenOrder(r) ==
    /\ pc = "idle"
    /\ op' = "open_order"
    /\ req' = r
    /\ calls' = Append(calls, "ws_open_order")
    /\ reqs' = Append(reqs, WsOrderReq(r))
    /\ pc' = "ws_open_order"
    /\ UNCHANGED <<book, served, pair, order_id, inst_id, params, orders, order_ids,
                   rco_ids, chunk_res, ws_res, rest_res, result>>
    /\ UNCHANGED <<trades, answers, fetch_res, pureVars>>

\* faulty variant: a failed streaming placement is placed again over REST
WsOpenOrderReturnsWithRestRetry(res) ==
    /\ pc = "ws_open_order"
    /\ ws_res' = [ok |-> res.ok, val |-> res.val, nc |-> <<>>, err |-> res.err]
    /\ reqs' = IF res.ok THEN reqs ELSE Append(reqs, RestOrderReq(req))
    /\ result' = res
    /\ pc' = "done"
    /\ UNCHANGED <<book, served, op, pair, order_id, inst_id, params, orders, order_ids,
                   rco_ids, chunk_res, rest_res, calls>>
    /\ UNCHANGED <<req, trades, answers, fetch_res, pureVars>>

\* the streaming placement returns and open_order returns its result
WsOpenOrderReturns(res) ==
    /\ pc = "ws_open_order"
    /\ ws_res' = [ok |-> res.ok, val |-> res.val, nc |-> <<>>, err |-> res.err]
    /\ result' = res
    /\ pc' = "done"
    /\ UNCHANGED <<book, served, op, pair, order_id, inst_id, params, orders, order_ids,
                   rco_ids, chunk_res, rest_res, calls, reqs>>
    /\ UNCHANGED <<req, trades, answers, fetch_res, pureVars>>

----------------------------------------------------------------------------
(* OkexInstrument::to_exchange_size, OkexInstrument::to_internal_amount *)

Spot == [kind |-> "Spot", contract_type |-> "", contract_value |-> Zero]

FuturePerpetual(contract_type, contract_value) ==
    [kind |-> "FuturePerpetual", contract_type |-> contract_type,
     contract_value |-> contract_value]

\* the values the conversions are called with
ContractValues == {Zero, Dec(1, 10), Dec(10, 1)}

Instruments ==
    {Spot} \cup {FuturePerpetual(t, c) : t \in {"Linear", "Inverse"}, c \in ContractValues}

Amounts == {Zero, Dec(1, 10000), Dec(17, 1), Dec(0 - 3, 2)}

Prices == {Zero, Dec(3, 2), Dec(1671, 1)}

\* faulty variant: the Inverse arm divides without the zero test
to_exchange_sizeUnguarded(self, a, p) ==
    CASE self.kind = "Spot" -> <<a>>
      [] self.kind # "Spot" /\ self.contract_type = "Linear" ->
            IF is_zero(self.contract_value) THEN <<>>
            ELSE <<DecDiv(a, self.contract_value)>>
      [] OTHER -> <<DecDiv(DecMul(a, p), self.contract_value)>>

\* faulty variant: the Inverse arm leaves the price out, as the Linear arm does
to_exchange_sizeInverseWithoutPrice(self, a, p) ==
    CASE self.kind = "Spot" -> <<a>>
      [] OTHER ->
            IF is_zero(self.contract_value) THEN <<>>
            ELSE <<DecDiv(a, self.contract_value)>>

to_exchange_size(self, a, p) ==
    CASE self.kind = "Spot" -> <<a>>
      [] self.kind # "Spot" /\ self.contract_type = "Linear" ->
            IF is_zero(self.contract_value) THEN <<>>
            ELSE <<DecDiv(a, self.contract_value)>>
      [] OTHER ->
            IF is_zero(self.contract_value) THEN <<>>
            ELSE <<DecDiv(DecMul(a, p), self.contract_value)>>

\* faulty variant: the Linear arm gives None for a zero contract value
to_internal_amountLinearGuarded(self, s, p) ==
    CASE self.kind = "Spot" -> <<s>>
      [] self.kind # "Spot" /\ self.contract_type = "Linear" ->
            IF is_zero(self.contract_value) THEN <<>>
            ELSE <<DecMul(s, self.contract_value)>>
      [] OTHER ->
            IF is_zero(p) THEN <<>>
            ELSE <<DecDiv(DecMul(s, self.contract_value), p)>>

to_internal_amount(self, s, p) ==
    CASE self.kind = "Spot" -> <<s>>
      [] self.kind # "Spot" /\ self.contract_type = "Linear" ->
            <<DecMul(s, self.contract_value)>>
      [] OTHER ->
            IF is_zero(p) THEN <<>>
            ELSE <<DecDiv(DecMul(s, self.contract_value), p)>>

ToExchangeSize(self, a, p) ==
    /\ pc = "idle"
    /\ op' = "to_exchange_size"
    /\ instrument' = self
    /\ amount' = a
    /\ price' = p
    /\ conv' = to_exchange_size(self, a, p)
    /\ pc' = "done"
    /\ UNCHANGED <<book, served, pair, order_id, inst_id, params, orders, order_ids,
                   rco_ids, chunk_res, ws_res, rest_res, calls, reqs, result>>
    /\ UNCHANGED <<req, trades, answers, fetch_res, size_, input, output, corrVars>>

ToInternalAmount(self, s, p) ==
    /\ pc = "idle"
    /\ op' = "to_internal_amount"
    /\ instrument' = self
    /\ size_' = s
    /\ price' = p
    /\ conv' = to_internal_amount(self, s, p)
    /\ pc' = "done"
    /\ UNCHANGED <<book, served, pair, order_id, inst_id, params, orders, order_ids,
                   rco_ids, chunk_res, ws_res, rest_res, calls, reqs, result>>
    /\ UNCHANGED <<req, trades, answers, fetch_res, amount, input, output, corrVars>>

\* tests::test_exchange_size_*, tests::test_internal_amount_*: an amount is turned
\* into an exchange size, and the size back into an amount at the same price
RoundTrip(self, a, p) ==
    LET s == to_exchange_size(self, a, p) IN
    /\ pc = "idle"
    /\ op' = "round_trip"
    /\ instrument' = self
    /\ amount' = a
    /\ price' = p
    /\ size_' = IF s = <<>> THEN Zero ELSE s[1]
    /\ conv' = IF s = <<>> THEN <<>> ELSE to_internal_amount(self, s[1], p)
    /\ pc' = "done"
    /\ UNCHANGED <<book, served, pair, order_id, inst_id, params, orders, order_ids,
                   rco_ids, chunk_res, ws_res, rest_res, calls, reqs, result>>
    /\ UNCHANGED <<req, trades, answers, fetch_res, input, output, corrVars>>

----------------------------------------------------------------------------
(* impl PartialEq<OkexInstrument> for Instrument *)

Assets == {"BTC", "USDT"}

InstrumentKinds == {"Spot", "FuturePerpetual"}

\* the driver's own instrument
Instrument(kind, base, quote) == [kind |-> kind, base |-> base, quote |-> quote]

\* the fields of an OkexInstrument the comparison reads
OkexSpot(base, quote) == [kind |-> "Spot", base |-> base, quote |-> quote]

OkexFuturePerpetual(contract_type, contract_value_asset, settle_asset) ==
    [kind |-> "FuturePerpetual", contract_type |-> contract_type,
     contract_value_asset |-> contract_value_asset, settle_asset |-> settle_asset]

InternalInstruments == {Instrument(k, b, q) : k \in InstrumentKinds, b \in Assets, q \in Assets}

OkexInstruments ==
    {OkexSpot(b, q) : b \in Assets, q \in Assets}
    \cup {OkexFuturePerpetual(t, c, a) : t \in {"Linear", "Inverse"}, c \in Assets, a \in Assets}

\* faulty variant: the Inverse arm reads the assets in the Linear roles
eqInverseAsLinear(self, other) ==
    IF other.kind = "Spot"
    THEN self.kind = "Spot" /\ other.base = self.base /\ other.quote = self.quote
    ELSE /\ self.kind = "FuturePerpetual"
         /\ other.contract_value_asset = self.base
         /\ other.settle_asset = self.quote

eq(self, other) ==
    IF other.kind = "Spot"
    THEN self.kind = "Spot" /\ other.base = self.base /\ other.quote = self.quote
    ELSE IF other.contract_type = "Linear"
    THEN /\ self.kind = "FuturePerpetual"
         /\ other.contract_value_asset = self.base
         /\ other.settle_asset = self.quote
    ELSE /\ self.kind = "FuturePerpetual"
         /\ other.settle_asset = self.base
         /\ other.contract_value_asset = self.quote

\* the frame of a pure function applied to an argument
PureFrame ==
    /\ UNCHANGED <<book, served, pair, order_id, inst_id, params, orders, order_ids,
                   rco_ids, chunk_res, ws_res, rest_res, calls, reqs, result>>
    /\ UNCHANGED <<req, trades, answers, fetch_res, instrument, amount, size_, price, conv>>
    /\ UNCHANGED corrVars

InstrumentEq(self, other) ==
    /\ pc = "idle"
    /\ op' = "eq"
    /\ input' = <<self, other>>
    /\ output' = eq(self, other)
    /\ pc' = "done"
    /\ PureFrame

----------------------------------------------------------------------------
(* impl TryFrom<&OkexBalancesUpdate> for FuturesState *)

\* f64 values: a finite number (an exact fraction), an infinity (v carries the
\* sign) or NaN
F64(d) == [cls |-> "num", v |-> d]

PosInf == [cls |-> "inf", v |-> One]

NegInf == [cls |-> "inf", v |-> Dec(0 - 1, 1)]

NaN == [cls |-> "nan", v |-> Zero]

\* the quotient of two finite f64 values: x / 0 is an infinity of the sign of
\* x, 0 / 0 is NaN
F64Div(a, b) ==
    IF ~is_zero(b.v) THEN F64(DecDiv(a.v, b.v))
    ELSE IF is_zero(a.v) THEN NaN
    ELSE IF a.v[1] > 0 THEN PosInf
    ELSE NegInf

\* f64::min(x, 1.): a NaN operand is ignored
F64Min1(x) ==
    CASE x.cls = "nan" -> F64(One)
      [] x.cls = "inf" -> IF x.v[1] > 0 THEN F64(One) ELSE x
      [] OTHER -> IF DecLeq(x.v, One) THEN x ELSE F64(One)

\* x <= 1.0 and x >= 0.0 as f64 comparisons (false of NaN)
F64Leq1(x) ==
    CASE x.cls = "nan" -> FALSE
      [] x.cls = "inf" -> x.v[1] < 0
      [] OTHER -> DecLeq(x.v, One)

F64Geq0(x) ==
    CASE x.cls = "nan" -> FALSE
      [] x.cls = "inf" -> x.v[1] > 0
      [] OTHER -> DecLeq(Zero, x.v)

\* details.iter().fold(Decimal::default(), |total_upl, update| ..)
RECURSIVE FoldUpl(_)
FoldUpl(details) ==
    IF details = <<>> THEN Zero
    ELSE DecAdd(FoldUpl(SubSeq(details, 1, Len(details) - 1)),
                unwrap_or_default(details[Len(details)].unrealized_pnl))

OkexBalanceUpdate(ccy, upl, cash_bal, avail_bal) ==
    [ccy |-> ccy, unrealized_pnl |-> upl, cash_bal |-> cash_bal, avail_bal |-> avail_bal]

\* the account channel updates the conversions are applied to
UpdateDetails ==
    { <<>>,
      << OkexBalanceUpdate("btc", <<Dec(1, 2)>>, <<Dec(5, 1)>>, <<Dec(3, 1)>>),
         OkexBalanceUpdate("usdt", <<>>, <<>>, <<Dec(2, 1)>>),
         OkexBalanceUpdate("eth", <<Dec(0 - 1, 1)>>, <<Dec(2, 1)>>, <<>>) >> }

Figures == {Dec(0 - 2, 1), Zero, Dec(1, 2), Dec(3, 1)}

Margins == {Zero, Dec(2, 1)}

OkexBalancesUpdates ==
    [details : UpdateDetails, exchange_initial_margin : Margins, total_collateral : Figures,
     notional_usd : Figures, total_maintenance_margin : Margins]

\* faulty variant: the maintenance margin ratio is left unclamped
try_fromUnclamped(update, f64_ok) ==
    IF ~f64_ok THEN Err("Generic:Unable to convert Decimal to f64")
    ELSE
    LET total_position_notional == F64(update.notional_usd)
        total_collateral == F64(update.total_collateral)
        total_maintenance_margin == F64(update.total_maintenance_margin)
        exchange_initial_margin == F64(update.exchange_initial_margin)
    IN  Ok([total_collateral |-> total_collateral,
            available_collateral |->
                F64(DecSub(update.total_collateral, update.exchange_initial_margin)),
            unrealized_pnl |-> F64(FoldUpl(update.details)),
            maintenance_margin_ratio |-> F64Div(total_maintenance_margin, total_collateral),
            position_initial_margin |-> <<>>,
            open_order_initial_margin |-> <<>>,
            exchange_initial_margin |-> exchange_initial_margin,
            margin_fraction |-> <<F64Min1(F64Div(total_collateral, total_position_notional))>>,
            open_margin_fraction |->
                <<F64Min1(F64Div(total_collateral, exchange_initial_margin))>>])

\* f64_ok: whether Decimal::to_f64 gives a value for the figures of the update
try_from(update, f64_ok) ==
    IF ~f64_ok THEN Err("Generic:Unable to convert Decimal to f64")
    ELSE
    LET total_position_notional == F64(update.notional_usd)
        total_collateral == F64(update.total_collateral)
        total_maintenance_margin == F64(update.total_maintenance_margin)
        exchange_initial_margin == F64(update.exchange_initial_margin)
    IN  Ok([total_collateral |-> total_collateral,
            available_collateral |->
                F64(DecSub(update.total_collateral, update.exchange_initial_margin)),
            unrealized_pnl |-> F64(FoldUpl(update.details)),
            maintenance_margin_ratio |->
                F64Min1(F64Div(total_maintenance_margin, total_collateral)),
            position_initial_margin |-> <<>>,
            open_order_initial_margin |-> <<>>,
            exchange_initial_margin |-> exchange_initial_margin,
            margin_fraction |-> <<F64Min1(F64Div(total_collateral, total_position_notional))>>,
            open_margin_fraction |->
                <<F64Min1(F64Div(total_collateral, exchange_initial_margin))>>])

RawBalancesFrom(updates) ==
    /\ pc = "idle"
    /\ op' = "raw_balances_from"
    /\ input' = updates
    /\ output' = RawBalancesFromUpdate(updates)
    /\ pc' = "done"
    /\ PureFrame

FuturesStateTryFrom(update, f64_ok) ==
    /\ pc = "idle"
    /\ op' = "futures_state_try_from"
    /\ input' = update
    /\ output' = try_from(update, f64_ok)
    /\ pc' = "done"
    /\ PureFrame

----------------------------------------------------------------------------
(* WsMessage: the deserialization of an inbound streaming message *)

\* an inbound JSON object, by what its fields hold ("" is an absent field):
\*   event  the value of "event"; "unsubscribe" is a tag WsEvent does not have
\*   arg    "ok" deserializes as a SubscriptionArg, "bad" does not
\*   data   "results" is a list of order results, "other" any other JSON value
\*   op     the value of "op"; "amend-order" is a tag WsMethodResponse does not have
\*   id     whether "id" holds a string
\*   code   "num" is a string that parses as u64, "text" any other string
\*   msg    whether "msg" holds a string
WsObjects ==
    [event : {"", "login", "subscribe", "error", "unsubscribe"},
     arg : {"", "ok", "bad"},
     data : {"", "results", "other"},
     op : {"", "order", "cancel-order", "batch-cancel-orders", "amend-order"},
     id : BOOLEAN,
     code : {"", "num", "text"},
     msg : BOOLEAN]

\* WsEvent, tagged by "event": Login | Subscribe {arg} | Error(WsMessageError {code})
AsWsEvent(m) ==
    \/ m.event = "login"
    \/ m.event = "subscribe" /\ m.arg = "ok"
    \/ m.event = "error" /\ m.code # ""

\* WsSubscription {arg: SubscriptionArg, data: Value}
AsWsSubscription(m) == m.arg = "ok" /\ m.data # ""

\* WsMethodResponse, tagged by "op": Order | CancelOrder | BatchCancelOrders,
\* each an OrderResponse {id, data: Vec<OrderResult>, code: u64 from a string, msg}
AsWsMethodResponse(m) ==
    /\ m.op \in {"order", "cancel-order", "batch-cancel-orders"}
    /\ m.id
    /\ m.data = "results"
    /\ m.code = "num"
    /\ m.msg

\* faulty variant: the subscription shape is tried before the event shape
from_strSubscriptionFirst(m) ==
    IF AsWsSubscription(m) THEN "Subscription"
    ELSE IF AsWsEvent(m) THEN "Event"
    ELSE IF AsWsMethodResponse(m) THEN "RequestResult"
    ELSE "Err"

\* serde_json::from_str::<WsMessage>: an untagged enum takes the first variant,
\* in declaration order, that the object deserializes as
from_str(m) ==
    IF AsWsEvent(m) THEN "Event"
    ELSE IF AsWsSubscription(m) THEN "Subscription"
    ELSE IF AsWsMethodResponse(m) THEN "RequestResult"
    ELSE "Err"

ParseWsMessage(m) ==
    /\ pc = "idle"
    /\ op' = "from_str"
    /\ input' = m
    /\ output' = from_str(m)
    /\ pc' = "done"
    /\ PureFrame

----------------------------------------------------------------------------
(* RequestCorrelator: pending streaming requests and their tagged responses *)

MaxWaiters == 2

MaxInbound == 3

RequestIds == {"r1", "r2"}

\* the inbound objects dispatched: an error event that carries the fields of a
\* request result, a subscription push, a login event and a request result
InboundObjects ==
    { [event |-> "error", arg |-> "", data |-> "results", op |-> "order", id |-> TRUE,
       code |-> "num", msg |-> TRUE],
      [event |-> "", arg |-> "ok", data |-> "other", op |-> "cancel-order", id |-> TRUE,
       code |-> "", msg |-> FALSE],
      [event |-> "login", arg |-> "", data |-> "", op |-> "", id |-> FALSE,
       code |-> "num", msg |-> TRUE],
      [event |-> "", arg |-> "", data |-> "results", op |-> "cancel-order", id |-> TRUE,
       code |-> "num", msg |-> TRUE] }

\* the request ids a table holds
PendingIds == {pending[i].id : i \in 1..Len(pending)}

WaiterOf(id) == (CHOOSE e \in Range(pending) : e.id = id).waiter

Without(id) == SelectSeq(pending, LAMBDA e : e.id # id)

\* faulty variant: every class of message that carries an id resolves
ResolvesAnyClass(class) == class \in {"Event", "Subscription", "RequestResult"}

\* only a tagged request result resolves a pending request
Resolves(class) == class = "RequestResult"

CorrelatorFrame ==
    /\ UNCHANGED <<book, served, pair, order_id, inst_id, params, orders, order_ids,
                   rco_ids, chunk_res, ws_res, rest_res, calls, reqs, result>>
    /\ UNCHANGED <<req, trades, answers, fetch_res, instrument, amount, size_, price, conv,
                   input, output>>

\* a caller registers a pending request under an id that is not in flight
Register(id) ==
    /\ pc \in {"idle", "correlating"}
    /\ pc = "idle" => op = "none"
    /\ id \notin PendingIds
    /\ next_waiter <= MaxWaiters
    /\ op' = "correlate"
    /\ pc' = "correlating"
    /\ pending' = Append(pending, [id |-> id, waiter |-> next_waiter])
    /\ next_waiter' = next_waiter + 1
    /\ UNCHANGED <<inbound, deliveries>>
    /\ CorrelatorFrame

\* the dispatcher takes an inbound message m that echoes the request id id
Dispatch(m, id) ==
    /\ pc = "correlating"
    /\ Len(inbound) < MaxInbound
    /\ inbound' = Append(inbound, [class |-> from_str(m), id |-> id])
    /\ IF Resolves(from_str(m)) /\ m.id /\ id \in PendingIds
       THEN /\ deliveries' = Append(deliveries,
                                    [waiter |-> WaiterOf(id), id |-> id, outcome |-> "resolved",
                                     cause |-> Len(inbound) + 1])
            /\ pending' = Without(id)
       ELSE UNCHANGED <<pending, deliveries>>
    /\ UNCHANGED <<op, pc, next_waiter>>
    /\ CorrelatorFrame

\* the channel closes: every pending request fails
ChannelClosed ==
    /\ pc = "correlating"
    /\ deliveries' = deliveries \o
            [i \in 1..Len(pending) |->
                [waiter |-> pending[i].waiter, id |-> pending[i].id, outcome |-> "failed",
                 cause |-> 0]]
    /\ pending' = <<>>
    /\ pc' = "done"
    /\ UNCHANGED <<op, next_waiter, inbound>>
    /\ CorrelatorFrame

----------------------------------------------------------------------------
(* The driver *)

Init ==
    /\ book \in {0, 1, CANCEL_ORDERS_BATCH_COUNT, CANCEL_ORDERS_BATCH_COUNT + 1, MaxMatch}
    /\ served = 0
    /\ op = "none"
    /\ pc = "idle"
    /\ pair = ""
    /\ order_id = 0
    /\ inst_id = ""
    /\ params = <<>>
    /\ orders = <<>>
    /\ order_ids = <<>>
    /\ rco_ids = <<>>
    /\ chunk_res = <<>>
    /\ ws_res = WsNoResult
    /\ rest_res = NoResult
    /\ calls = <<>>
    /\ reqs = <<>>
    /\ result = NoResult
    /\ req = NoRequest
    /\ trades = <<>>
    /\ answers = <<>>
    /\ fetch_res = NoResult
    /\ instrument = Spot
    /\ amount = Zero
    /\ size_ = Zero
    /\ price = Zero
    /\ conv = <<>>
    /\ input = <<>>
    /\ output = <<>>
    /\ pending = <<>>
    /\ next_waiter = 1
    /\ inbound = <<>>
    /\ deliveries = <<>>

Next ==
    \/ \E p \in Pairs, id \in 1..MaxOrderId : CancelOrderById(p, id)
    \/ \E res \in WsCancelResults : WsCancelOrderReturns(res)
    \/ \E resp \in RestCancelResponses(order_id) : RestCancelOrderReturns(resp)
    \/ \E p \in Pairs : CancelAll(p)
    \/ \E resp \in PageResponses(Len(orders)) : OrdersPageReturns(resp)
    \/ \E res \in WsCancelOrdersResults(order_ids) : WsCancelOrdersReturns(res)
    \/ \E n \in DirectLens : CallRestCancelOrders(n, "i1")
    \/ \E c \in 1..Len(chunk_res), outcome \in ChunkOutcomes : ChunkReturns(c, outcome)
    \/ JoinAllReturns
    \/ FetchOpenOrders
    \/ \E p \in Pairs : FetchTradesSince(p)
    \/ FetchAllTradesSince
    \/ \E resp \in TradePageResponses(Len(trades), inst_id) : TradesPageReturns(resp)
    \/ CallRestFetchBalances
    \/ FetchBalances
    \/ FetchCollateralBalances
    \/ FetchFundingRateTransactions
    \/ \E resp \in ListResponses(BalancesItems) : BalancesReturns(resp)
    \/ CallRestFetchAccountBills
    \/ \E resp \in ListResponses(BillsItems) : AccountBillsReturns(resp)
    \/ CallGetPositionMode
    \/ \E resp \in ListResponses(ConfigItems) : PositionModeReturns(resp)
    \/ \E r \in OrderRequests : OpenOrder(r)
    \/ \E res \in WsOpenOrderResults(req) : WsOpenOrderReturns(res)
    \/ \E self \in Instruments, a \in Amounts, p \in Prices : ToExchangeSize(self, a, p)
    \/ \E self \in Instruments, s \in Amounts, p \in Prices : ToInternalAmount(self, s, p)
    \/ \E self \in Instruments, a \in Amounts, p \in Prices : RoundTrip(self, a, p)
    \/ \E self \in InternalInstruments, i \in OkexInstruments : InstrumentEq(self, i)
    \/ \E u \in OkexBalancesUpdates, f64_ok \in BOOLEAN : FuturesStateTryFrom(u, f64_ok)
    \/ \E u \in OkexBalancesUpdates : RawBalancesFrom(u)
    \/ \E m \in WsObjects : ParseWsMessage(m)

Spec == Init /\ [][Next]_vars

\* the request correlator on its own: registrations, inbound messages, closure
CorrelatorInit == Init /\ book = 0

CorrelatorNext ==
    \/ \E id \in RequestIds : Register(id)
    \/ \E m \in InboundObjects, id \in RequestIds : Dispatch(m, id)
    \/ ChannelClosed

CorrelatorSpec == CorrelatorInit /\ [][CorrelatorNext]_vars

----------------------------------------------------------------------------
(* Properties *)

WsCancelReqs == SelectSeq(reqs, IsWsCancel)

RestCancelReqs == SelectSeq(reqs, IsRestCancel)

\* the order ids named by a sequence of requests, in request order
ReqIds(rs) == Flatten([i \in 1..Len(rs) |-> rs[i].ids])

WsReturned == ws_res # WsNoResult

WsFailedIdempotent == WsReturned /\ ~ws_res.ok /\ ws_res.err \in IdempotentErrors

WsFailedOther == WsReturned /\ ~ws_res.ok /\ ws_res.err \notin IdempotentErrors

\* the outcome that settles a cancel_order_by_id call: the streaming result when
\* it is Ok or one of the three idempotent errors, else the REST fallback's result
FinalOutcome ==
    IF WsFailedOther THEN rest_res ELSE [ok |-> ws_res.ok, val |-> <<>>, err |-> ws_res.err]

\* C1: cancel_order_by_id: when the streaming cancel ends with OrderNotFound,
\* OrderAlreadyCancelled or OrderAlreadyFilled, the call has returned that same
\* error and no REST cancel request was issued.
C1_IdempotentStreamingResultReturned ==
    (op = "cancel_order_by_id" /\ WsFailedIdempotent)
        => /\ pc = "done"
           /\ result = Err(ws_res.err)
           /\ RestCancelReqs = <<>>
           /\ calls = <<"ws_cancel_order_by_id">>

C1_Witness ==
    /\ op = "cancel_order_by_id"
    /\ pc = "done"
    /\ ws_res.err = "OrderAlreadyFilled"
    /\ result = Err("OrderAlreadyFilled")

\* C2: cancel_order_by_id: when the streaming cancel fails with any other error,
\* exactly one REST cancel is issued, for the call's order id and the instrument
\* id of the call's pair, and the call returns the REST cancel's result.
C2_OtherStreamingErrorFallsBackToRest ==
    (op = "cancel_order_by_id" /\ WsFailedOther)
        => /\ RestCancelReqs = <<RestCancelReq(order_id, find_instrument(pair)[1])>>
           /\ calls = <<"ws_cancel_order_by_id", "rest_cancel_order_by_id">>
           /\ pc \in {"rest_cancel_order_by_id", "done"}
           /\ pc = "done" => (rest_res # NoResult /\ result = rest_res)

C2_Witness ==
    /\ op = "cancel_order_by_id"
    /\ pc = "done"
    /\ ws_res.err = "Generic:timeout"
    /\ Len(RestCancelReqs) = 1
    /\ result = Ok(<<>>)

\* C3 as stated: cancel_order_by_id reports success whenever the final outcome
\* is one of the three idempotent errors, and hands on every other error unchanged.
C3_IdempotentOutcomeReportedAsSuccess ==
    (op = "cancel_order_by_id" /\ pc = "done" /\ WsReturned)
        => IF ~FinalOutcome.ok /\ FinalOutcome.err \in IdempotentErrors
           THEN result.ok
           ELSE result = FinalOutcome

\* C3 amended: cancel_order_by_id returns the final outcome of the cancellation
\* unchanged: Ok when the settling attempt succeeded, else that attempt's error;
\* the three idempotent errors reach the caller as errors, from the streaming
\* attempt and from the REST fallback alike.
C3_FinalOutcomeReturnedUnchanged ==
    (op = "cancel_order_by_id" /\ pc = "done" /\ WsReturned)
        => /\ result = FinalOutcome
           /\ result.ok <=> (ws_res.ok \/ (WsFailedOther /\ rest_res.ok))

C3_Witness ==
    /\ op = "cancel_order_by_id"
    /\ pc = "done"
    /\ WsFailedOther
    /\ rest_res = Err("OrderAlreadyCancelled")
    /\ result = Err("OrderAlreadyCancelled")

IsWsCancelCall(c) == c \in {"ws_cancel_order_by_id", "ws_cancel_orders"}

IsRestCancelCall(c) == c \in {"rest_cancel_order_by_id", "rest_cancel_orders"}

\* C4: in cancel_order_by_id and in cancel_all there is at most one streaming
\* cancel attempt and at most one REST cancel phase; every REST cancel request
\* is issued after the streaming attempt has returned, and no streaming cancel
\* request follows a REST cancel request.
C4_OneFallbackHop ==
    op \in {"cancel_order_by_id", "cancel_all"}
        => /\ Len(SelectSeq(calls, IsWsCancelCall)) <= 1
           /\ Len(SelectSeq(calls, IsRestCancelCall)) <= 1
           /\ Len(WsCancelReqs) <= 1
           /\ op = "cancel_order_by_id" => Len(RestCancelReqs) <= 1
           /\ \A i \in DOMAIN reqs :
                 IsRestCancel(reqs[i])
                    => /\ WsReturned
                       /\ \E j \in 1..(i - 1) : IsWsCancel(reqs[j])
                       /\ \A k \in (i + 1)..Len(reqs) : ~IsWsCancel(reqs[k])
           /\ \A i \in DOMAIN calls :
                 IsRestCancelCall(calls[i])
                    => /\ \E j \in 1..(i - 1) : IsWsCancelCall(calls[j])
                       /\ \A k \in (i + 1)..Len(calls) : ~IsWsCancelCall(calls[k])

C4_Witness ==
    /\ op = "cancel_all"
    /\ pc = "done"
    /\ Len(WsCancelReqs) = 1
    /\ Len(RestCancelReqs) >= 2
    /\ calls = <<"rest_fetch_open_orders", "ws_cancel_orders", "rest_cancel_orders">>

\* exchange side: the ids, in the order served, of the orders served so far
\* whose instrument is the instrument of the call's pair
ServedIdsOfPair ==
    LET OfPair(k) == find_instrument(pair) # <<>> /\ InstOfOrder(k) = find_instrument(pair)[1]
    IN  SelectSeq([k \in 1..served |-> k], OfPair)

WsConfirmedAll == WsReturned /\ ws_res.ok /\ ws_res.nc = <<>>

WsConfirmedPart == WsReturned /\ ws_res.ok /\ ws_res.nc # <<>>

WsBatchFailed == WsReturned /\ ~ws_res.ok

\* C5: cancel_all: the streaming batch cancel is handed exactly the ids of the
\* fetched open orders whose instrument is the pair's instrument; when the
\* streaming result leaves no id uncancelled, cancel_all has returned the
\* confirmed ids and no REST batch cancel was issued.
C5_StreamingBatchGetsExactIdSet ==
    op = "cancel_all"
        => /\ \A i \in DOMAIN reqs :
                 IsWsCancel(reqs[i])
                    => /\ reqs[i] = WsBatchCancelReq(ServedIdsOfPair, find_instrument(pair)[1])
                       /\ reqs[i].ids # <<>>
           /\ WsConfirmedAll
                 => /\ pc = "done"
                    /\ result = Ok(ws_res.val)
                    /\ RestCancelReqs = <<>>
                    /\ "rest_cancel_orders" \notin Range(calls)

C5_Witness ==
    /\ op = "cancel_all"
    /\ pc = "done"
    /\ WsConfirmedAll
    /\ served > Len(ServedIdsOfPair)
    /\ Len(result.val) > CANCEL_ORDERS_BATCH_COUNT
    /\ result.val = ServedIdsOfPair

\* C6: cancel_all: after a partial streaming success the REST batch cancel is
\* called with exactly the ids the streaming result reported as not cancelled,
\* and no id the streaming result confirmed is in a REST request.
C6_PartialSuccessSendsRemainderToRest ==
    (op = "cancel_all" /\ WsConfirmedPart)
        => /\ rco_ids = ws_res.nc
           /\ ReqIds(RestCancelReqs) = ws_res.nc
           /\ Range(ReqIds(RestCancelReqs)) \cap Range(ws_res.val) = {}
           /\ \A i \in DOMAIN RestCancelReqs : RestCancelReqs[i].inst = find_instrument(pair)[1]

C6_Witness ==
    /\ op = "cancel_all"
    /\ WsConfirmedPart
    /\ Len(ws_res.val) > 1
    /\ Len(ws_res.nc) > CANCEL_ORDERS_BATCH_COUNT
    /\ Len(RestCancelReqs) = 2

\* C7: cancel_all: after a streaming batch error the REST batch cancel is called
\* with the whole id set taken from the open-orders snapshot, and cancel_all
\* returns the REST batch cancel's result.
C7_StreamingErrorSendsAllToRest ==
    (op = "cancel_all" /\ WsBatchFailed)
        => /\ rco_ids = ServedIdsOfPair
           /\ ReqIds(RestCancelReqs) = ServedIdsOfPair
           /\ calls = <<"rest_fetch_open_orders", "ws_cancel_orders", "rest_cancel_orders">>
           /\ pc \in {"rest_cancel_orders", "done"}
           /\ pc = "done" => (rest_res # NoResult /\ result = rest_res)

C7_Witness ==
    /\ op = "cancel_all"
    /\ pc = "done"
    /\ WsBatchFailed
    /\ Len(ServedIdsOfPair) = MaxMatch
    /\ result.ok
    /\ result.val # <<>>

\* C8: rest_cancel_orders with an empty id list returns an empty result and
\* issues no request; cancel_all issues neither a streaming nor a REST cancel
\* request when the snapshot holds no order of the pair's instrument, and then
\* returns an empty list.
C8_NothingToCancelIssuesNoCancel ==
    /\ (op = "rest_cancel_orders" /\ rco_ids = <<>>)
          => /\ reqs = <<>>
             /\ pc = "done"
             /\ result = Ok(<<>>)
    /\ (op = "cancel_all" /\ ServedIdsOfPair = <<>>)
          => /\ WsCancelReqs = <<>>
             /\ RestCancelReqs = <<>>
             /\ (pc = "done" /\ result.ok) => result = Ok(<<>>)

C8_Witness ==
    /\ op = "cancel_all"
    /\ pc = "done"
    /\ served > 0
    /\ ServedIdsOfPair = <<>>
    /\ result = Ok(<<>>)
    /\ Len(reqs) = 1

\* C9: rest_cancel_orders splits a nonempty list of n ids into consecutive
\* chunks: ceil(n / 20) batch requests, each but the last with exactly 20 ids,
\* the last with 1 to 20, and the requests' ids read in order are the input list.
C9_ChunksPartitionTheIds ==
    (pc \in {"rest_cancel_orders", "done"} /\ rco_ids # <<>>)
        => LET n  == Len(rco_ids)
               rs == RestCancelReqs
           IN  /\ Len(rs) * CANCEL_ORDERS_BATCH_COUNT >= n
               /\ (Len(rs) - 1) * CANCEL_ORDERS_BATCH_COUNT < n
               /\ \A c \in 1..(Len(rs) - 1) : Len(rs[c].ids) = CANCEL_ORDERS_BATCH_COUNT
               /\ \A c \in 1..Len(rs) :
                     /\ Len(rs[c].ids) \in 1..CANCEL_ORDERS_BATCH_COUNT
                     /\ rs[c].path = "/api/v5/trade/cancel-batch-orders"
                     /\ rs[c].inst = inst_id
               /\ ReqIds(rs) = rco_ids
               /\ Len(chunk_res) = Len(rs)

C9_Witness ==
    /\ pc = "rest_cancel_orders"
    /\ Len(rco_ids) = 2 * CANCEL_ORDERS_BATCH_COUNT + 1
    /\ Len(RestCancelReqs) = 3
    /\ Len(RestCancelReqs[3].ids) = 1

\* the ids one chunk contributes under an outcome: none for a failed call or an
\* envelope without data, the whole chunk when every sCode is 0, and the ids
\* whose sCode is not the other-failure code in a mixed answer
Contribution(chunk, outcome) ==
    CASE outcome \in {"err", "nodata"} -> <<>>
      [] outcome = "all_ok"            -> chunk
      [] OTHER -> LET Accepted(id) == MixedCode(id) # CodeOther IN SelectSeq(chunk, Accepted)

\* the c-th run of at most CANCEL_ORDERS_BATCH_COUNT ids of the input list
InputChunk(c) ==
    LET lo == (c - 1) * CANCEL_ORDERS_BATCH_COUNT + 1 IN
    [i \in 1..Min(CANCEL_ORDERS_BATCH_COUNT, Len(rco_ids) - lo + 1) |-> rco_ids[lo + i - 1]]

\* C10: rest_cancel_orders isolates chunk failures: it returns only when every
\* chunk request has completed, it returns Ok whatever the chunk outcomes, a
\* chunk whose call failed or whose envelope has no data contributes no id, and
\* the ids accepted from every other chunk are all in the result, in chunk order.
C10_ChunkFailuresAreIsolated ==
    /\ (pc = "rest_cancel_orders" /\ rco_ids # <<>>)
          => /\ result = NoResult
             /\ Len(RestCancelReqs) = Len(chunk_res)
    /\ (pc = "done" /\ rco_ids # <<>>)
          => /\ \A c \in DOMAIN chunk_res : chunk_res[c] # "pending"
             /\ result.ok
             /\ result.val =
                   Flatten([c \in 1..Len(chunk_res) |-> Contribution(InputChunk(c), chunk_res[c])])

C10_Witness ==
    /\ pc = "done"
    /\ Len(chunk_res) = 3
    /\ chunk_res[1] = "err"
    /\ chunk_res[2] = "mixed"
    /\ chunk_res[3] = "nodata"
    /\ result.ok
    /\ Len(result.val) > 1

\* the answer of the exchange to chunk request c, as it was served
ChunkAnswer(c) == ChunkResponse(InputChunk(c), chunk_res[c])

\* C11: rest_cancel_orders: within a chunk whose envelope carries data, an order
\* id is in the result if and only if its order result validates as a clean
\* success or as OrderNotFound, OrderAlreadyCancelled or OrderAlreadyFilled; a
\* result with another failure code is left out without removing the other ids
\* of its chunk.
C11_OrderResultsValidatedOneByOne ==
    (pc = "done" /\ rco_ids # <<>>)
        => \A c \in DOMAIN chunk_res :
              (ChunkAnswer(c).call.ok /\ ChunkAnswer(c).data # <<>>)
                 => \A i \in DOMAIN ChunkAnswer(c).data[1] :
                       LET r == ChunkAnswer(c).data[1][i] IN
                       (r.order_id \in Range(result.val))
                          <=> (validate(r).ok \/ validate(r).err \in IdempotentErrors)

C11_Witness ==
    /\ op = "rest_cancel_orders"
    /\ pc = "done"
    /\ chunk_res = <<"mixed">>
    /\ Len(rco_ids) = CANCEL_ORDERS_BATCH_COUNT
    /\ \E id \in Range(rco_ids) :
          MixedCode(id) = CodeOther /\ id \notin Range(result.val)
    /\ \A code \in SCodes \ {CodeOther} :
          \E id \in Range(rco_ids) : MixedCode(id) = code /\ id \in Range(result.val)

IsPageReq(r) ==
    r.ch = "rest" /\ r.path \in {"/api/v5/trade/orders-pending", "/api/v5/trade/fills"}

PageReqs == SelectSeq(reqs, IsPageReq)

PagedOps == {"cancel_all", "fetch_open_orders", "fetch_trades_since", "fetch_all_trades_since"}

Fetching == pc \in {"rest_fetch_open_orders", "rest_fetch_trades"}

FetchReturned == fetch_res # NoResult

\* the records an answer holds: none when its call failed or its data is absent
PageOf(ans) == IF ans.call.ok /\ ans.data # <<>> THEN ans.data[1] ELSE <<>>

\* the page size of the fetch the operation makes
PageSize ==
    IF op \in {"cancel_all", "fetch_open_orders"}
    THEN FETCH_OPEN_ORDERS_COUNT
    ELSE FETCH_RECENT_TRADES_COUNT

\* a page of exactly the page size, received in a successful envelope
FullPage(ans) ==
    /\ ans.call.ok
    /\ ans.code = 0
    /\ Len(PageOf(ans)) = PageSize

\* C12: the paginated fetches stop after the first page of fewer than 100
\* records, the empty page included: every answer but the last is a full page,
\* no page request follows a short page, and a fetch that returns Ok returns the
\* pages received, concatenated in request order, duplicates kept.
C12_FetchStopsAfterShortPage ==
    op \in PagedOps
        => /\ Len(PageReqs) = Len(answers) + (IF Fetching THEN 1 ELSE 0)
              \/ (PageReqs = <<>> /\ answers = <<>> /\ ~Fetching)
           /\ \A i \in 1..(Len(answers) - 1) : FullPage(answers[i])
           /\ Fetching => \A i \in DOMAIN answers : FullPage(answers[i])
           /\ FetchReturned => (answers # <<>> /\ ~FullPage(answers[Len(answers)]))
           /\ (FetchReturned /\ fetch_res.ok)
                 => fetch_res.val = Flatten([i \in 1..Len(answers) |-> PageOf(answers[i])])

C12_Witness ==
    /\ op = "fetch_all_trades_since"
    /\ pc = "done"
    /\ Len(answers) = 2
    /\ Len(PageOf(answers[2])) = FETCH_RECENT_TRADES_COUNT - 1
    /\ fetch_res.ok
    /\ Len(fetch_res.val) = 2 * FETCH_RECENT_TRADES_COUNT - 1
    /\ fetch_res.val[FETCH_RECENT_TRADES_COUNT] = fetch_res.val[FETCH_RECENT_TRADES_COUNT + 1]

\* the cursor a page request must carry after the page ans: the identifier of
\* the last record of ans, as `before` (order id) or as `after` (bill id)
CursorAfter(r, ans) ==
    IF r.path = "/api/v5/trade/orders-pending"
    THEN << <<"before", PageOf(ans)[Len(PageOf(ans))].order_id>> >>
    ELSE << <<"after", PageOf(ans)[Len(PageOf(ans))].bill_id>> >>

\* C13: the first page request carries no cursor; after every page of exactly
\* 100 records exactly one further page request is issued, and it carries the
\* cursor set to the identifier of the last record of that page.
C13_CursorIsLastRecordOfPage ==
    op \in PagedOps
        => /\ \A i \in DOMAIN PageReqs :
                 IF i = 1 THEN PageReqs[i].cursor = <<>>
                 ELSE /\ i - 1 \in DOMAIN answers
                      /\ FullPage(answers[i - 1])
                      /\ PageReqs[i].cursor = CursorAfter(PageReqs[i], answers[i - 1])
           /\ \A i \in DOMAIN answers : FullPage(answers[i]) => i + 1 \in DOMAIN PageReqs
           /\ \A i \in DOMAIN reqs :
                 IsPageReq(reqs[i]) => \A j \in 1..(i - 1) : IsPageReq(reqs[j])

C13_Witness ==
    /\ op = "fetch_open_orders"
    /\ pc = "done"
    /\ Len(PageReqs) = 2
    /\ PageReqs[2].cursor = << <<"before", FETCH_OPEN_ORDERS_COUNT>> >>
    /\ result.ok

FetchOps ==
    PagedOps \cup {"rest_fetch_balances", "rest_fetch_account_bills", "get_position_mode"}

\* C14: every REST fetch: an answer whose envelope has code 0 and no data, or a
\* nonzero code, makes the fetch return an error; it never returns Ok for it.
C14_AbsentDataIsAnError ==
    (op \in FetchOps /\ FetchReturned /\ answers # <<>>)
        => LET ans == answers[Len(answers)] IN
           (ans.call.ok /\ (ans.code # 0 \/ ans.data = <<>>)) => ~fetch_res.ok

\* the errors validate gives for a nonzero status code
StatusCodeErrors == {validate(OrderResult(0, c)).err : c \in SCodes \ {0}}

\* C15: rest_cancel_order_by_id: an answer with absent data or with an empty
\* list of order results gives an error that no nonzero status code gives; an
\* answer with an order result gives exactly the validation of that result.
C15_MissingAcknowledgmentIsItsOwnError ==
    (op = "cancel_order_by_id" /\ rest_res # NoResult)
        => LET ans == answers[Len(answers)] IN
           /\ Len(answers) = 1
           /\ ans.call.ok
                 => IF ans.data = <<>> \/ ans.data[1] = <<>>
                    THEN ~rest_res.ok /\ rest_res.err \notin StatusCodeErrors
                    ELSE rest_res = validate(ans.data[1][Len(ans.data[1])])

C15_Witness ==
    /\ op = "cancel_order_by_id"
    /\ rest_res = Err("Generic:no-order-result")
    /\ answers[1].data = << <<>> >>

\* C16: open_order places the order over the streaming path only: its one
\* request is the streaming placement, it issues no REST request, and it returns
\* the streaming placement's result, a failure included, without another attempt.
C16_OpenOrderStreamingOnly ==
    op = "open_order"
        => /\ reqs = <<WsOrderReq(req)>>
           /\ calls = <<"ws_open_order">>
           /\ \A i \in DOMAIN reqs : reqs[i].ch # "rest"
           /\ pc \in {"ws_open_order", "done"}
           /\ pc = "done"
                 => /\ WsReturned
                    /\ result = [ok |-> ws_res.ok, val |-> ws_res.val, err |-> ws_res.err]

C16_Witness ==
    /\ op = "open_order"
    /\ pc = "done"
    /\ result = Err("Generic:timeout")
    /\ Len(reqs) = 1

\* C17: cancel_order_by_id, cancel_all and fetch_trades_since called with a pair
\* that has no mapped instrument have returned NotSupportedSymbol without
\* entering any request function and without issuing any request.
C17_UnmappedPairIsNotSupportedSymbol ==
    (op \in {"cancel_order_by_id", "cancel_all", "fetch_trades_since"}
       /\ find_instrument(pair) = <<>>)
        => /\ pc = "done"
           /\ result = Err("NotSupportedSymbol")
           /\ reqs = <<>>
           /\ calls = <<>>
           /\ answers = <<>>

C17_Witness ==
    /\ op = "fetch_trades_since"
    /\ pair = "p3"
    /\ pc = "done"
    /\ result = Err("NotSupportedSymbol")
    /\ reqs = <<>>

\* the records the operation's fetch returned and its mapping looks up: every
\* open order, and every trade of the last 24 hours
LookedUp ==
    IF op = "fetch_open_orders" THEN fetch_res.val ELSE SelectSeq(fetch_res.val, InWindow)

\* C18: fetch_open_orders and fetch_all_trades_since: when a fetched record has
\* an instrument id without a mapped pair, the operation reports the symbol as
\* not supported; it does not return a result that lacks the record.
C18_FailedPairLookupIsReported ==
    (op \in {"fetch_open_orders", "fetch_all_trades_since"} /\ pc = "done" /\ fetch_res.ok
       /\ \E i \in DOMAIN LookedUp : find_pair(LookedUp[i].instrument_id) = <<>>)
        => result = Err("NotSupportedSymbol")

\* C19: to_exchange_size equals the reference: Spot gives the amount; Linear
\* gives the size s with s * contractValue = amount, whatever the price; Inverse
\* gives the size s with s * contractValue = amount * price; the result is
\* absent exactly for a perpetual with contractValue = 0, and no division by
\* zero is made.
C19_ToExchangeSizeMatchesReference ==
    (op = "to_exchange_size" /\ pc = "done")
        => /\ conv # <<DivisionFault>>
           /\ (conv = <<>>)
                 <=> (instrument.kind = "FuturePerpetual" /\ is_zero(instrument.contract_value))
           /\ conv # <<>>
                 => CASE instrument.kind = "Spot" -> conv[1] = amount
                      [] instrument.kind # "Spot" /\ instrument.contract_type = "Linear" ->
                            DecMul(conv[1], instrument.contract_value) = amount
                      [] OTHER ->
                            DecMul(conv[1], instrument.contract_value) = DecMul(amount, price)

C19_Witness ==
    /\ op = "to_exchange_size"
    /\ instrument = FuturePerpetual("Inverse", Dec(10, 1))
    /\ amount = Dec(1, 10000)
    /\ price = Dec(1671, 1)
    /\ conv = <<Dec(1671, 100000)>>

\* C20: to_internal_amount equals the reference: Spot gives the size; Linear
\* gives size * contractValue, whatever the price, a present zero when
\* contractValue = 0; Inverse gives the amount a with a * price =
\* size * contractValue; the result is absent exactly for an Inverse
\* instrument with price = 0, and no division by zero is made.
C20_ToInternalAmountMatchesReference ==
    (op = "to_internal_amount" /\ pc = "done")
        => /\ conv # <<DivisionFault>>
           /\ (conv = <<>>)
                 <=> (instrument.kind = "FuturePerpetual"
                        /\ instrument.contract_type = "Inverse" /\ is_zero(price))
           /\ conv # <<>>
                 => CASE instrument.kind = "Spot" -> conv[1] = size_
                      [] instrument.kind # "Spot" /\ instrument.contract_type = "Linear" ->
                            IF is_zero(instrument.contract_value)
                            THEN conv[1] = Zero
                            ELSE DecDiv(conv[1], instrument.contract_value) = size_
                      [] OTHER ->
                            DecMul(conv[1], price) = DecMul(size_, instrument.contract_value)

C20_Witness ==
    /\ op = "to_internal_amount"
    /\ instrument = FuturePerpetual("Linear", Zero)
    /\ size_ = Dec(17, 1)
    /\ conv = <<Zero>>

\* C21: turning an amount into an exchange size and the size back into an
\* amount at the same price gives the amount again, for every Spot instrument,
\* every Linear instrument with a nonzero contract value, and every Inverse
\* instrument with a nonzero contract value at a nonzero price (Decimal values
\* are exact fractions here, so no rounding residue is left).
C21_RoundTripReturnsAmount ==
    (op = "round_trip" /\ pc = "done"
       /\ \/ instrument.kind = "Spot"
          \/ /\ instrument.kind = "FuturePerpetual"
             /\ instrument.contract_type = "Linear"
             /\ ~is_zero(instrument.contract_value)
          \/ /\ instrument.kind = "FuturePerpetual"
             /\ instrument.contract_type = "Inverse"
             /\ ~is_zero(instrument.contract_value)
             /\ ~is_zero(price))
    => conv = <<amount>>

C21_Witness ==
    /\ op = "round_trip" /\ pc = "done"
    /\ instrument = FuturePerpetual("Inverse", Dec(1, 10))
    /\ amount = Dec(1, 10000)
    /\ price = Dec(1671, 1)
    /\ size_ = Dec(1671, 1000)
    /\ conv = <<Dec(1, 10000)>>

\* C22: an internal (kind, base, quote) instrument equals an exchange
\* instrument exactly when it is a Spot against a Spot of the same base and
\* quote, or a FuturePerpetual against a Linear perpetual whose contract-value
\* asset is the base and whose settlement asset is the quote, or a
\* FuturePerpetual against an Inverse perpetual whose settlement asset is the
\* base and whose contract-value asset is the quote; in no other case.
C22_EqualInExactlyThreeCases ==
    (op = "eq" /\ pc = "done") =>
        LET self == input[1]
            i == input[2]
            spot == /\ self.kind = "Spot" /\ i.kind = "Spot"
                    /\ i.base = self.base /\ i.quote = self.quote
            linear == /\ self.kind = "FuturePerpetual" /\ i.kind = "FuturePerpetual"
                      /\ i.contract_type = "Linear"
                      /\ self.base = i.contract_value_asset
                      /\ self.quote = i.settle_asset
            inverse == /\ self.kind = "FuturePerpetual" /\ i.kind = "FuturePerpetual"
                       /\ i.contract_type = "Inverse"
                       /\ self.base = i.settle_asset
                       /\ self.quote = i.contract_value_asset
        IN  output = (spot \/ linear \/ inverse)

C22_Witness ==
    /\ op = "eq" /\ pc = "done"
    /\ input = <<Instrument("FuturePerpetual", "BTC", "USDT"),
                 OkexFuturePerpetual("Inverse", "USDT", "BTC")>>
    /\ output = TRUE

\* C23: in every margin snapshot built from a balance/margin update the
\* maintenance margin ratio, the margin fraction and the open margin fraction
\* are at most 1.0, also when the collateral is smaller than the maintenance
\* margin and when the collateral, the notional or the initial margin is 0.
C23_RatiosAtMostOne ==
    (op = "futures_state_try_from" /\ pc = "done" /\ output.ok) =>
        /\ F64Leq1(output.val.maintenance_margin_ratio)
        /\ F64Leq1(output.val.margin_fraction[1])
        /\ F64Leq1(output.val.open_margin_fraction[1])

C23_Witness ==
    /\ op = "futures_state_try_from" /\ pc = "done" /\ output.ok
    /\ input.total_collateral = Dec(1, 2)
    /\ input.total_maintenance_margin = Dec(2, 1)
    /\ input.notional_usd = Zero
    /\ input.exchange_initial_margin = Zero
    /\ output.val.maintenance_margin_ratio = F64(One)
    /\ output.val.margin_fraction = <<F64(One)>>
    /\ output.val.open_margin_fraction = <<F64(One)>>

\* C29: the margin fraction of a margin snapshot is never negative: with a
\* collateral that is not negative it lies in [0, 1], also when the total
\* position notional is negative.
C29_MarginFractionNeverNegative ==
    (op = "futures_state_try_from" /\ pc = "done" /\ output.ok
       /\ DecLeq(Zero, input.total_collateral)) =>
        /\ F64Geq0(output.val.margin_fraction[1])
        /\ F64Leq1(output.val.margin_fraction[1])

\* the balances a driver balance operation has returned, and the raw records
\* they were built from
BalanceOps == {"fetch_balances", "fetch_collateral_balances"}

BalancesReturned == op \in BalanceOps /\ pc = "done" /\ result.ok

\* total = cash balance, free = available balance, used = total - free
SpendingNormalization(raw, balance) ==
    /\ balance.symbol = raw.ccy
    /\ balance.total = unwrap_or_default(raw.cash_bal)
    /\ balance.free = unwrap_or_default(raw.avail_bal)
    /\ balance.used = DecSub(balance.total, balance.free)

\* total = free = cash balance, used = total - free = 0
CollateralNormalization(raw, balance) ==
    /\ balance.symbol = raw.ccy
    /\ balance.total = unwrap_or_default(raw.cash_bal)
    /\ balance.free = balance.total
    /\ balance.used = DecSub(balance.total, balance.free)

\* C24 (as stated): every raw balance record is normalized the same way in the
\* RawBalance and in the RawCollateral built from it: total = cash balance (0
\* when absent), free = available balance (0 when absent), used = total - free.
C24_SameNormalizationForCollateral ==
    /\ BalancesReturned =>
          /\ Len(result.val) = Len(fetch_res.val)
          /\ \A i \in 1..Len(result.val) :
                SpendingNormalization(fetch_res.val[i], result.val[i])
    /\ (op = "raw_balances_from" /\ pc = "done") =>
          /\ Len(output) = Len(input.details)
          /\ \A i \in 1..Len(output) : SpendingNormalization(input.details[i], output[i])

\* C24 (amended): in both records total = cash balance (0 when absent) and
\* used = total - free; free = available balance (0 when absent) in a
\* RawBalance, and free = total (so used = 0) in a RawCollateral.
C24_NormalizationPerBalanceKind ==
    /\ BalancesReturned =>
          /\ Len(result.val) = Len(fetch_res.val)
          /\ \A i \in 1..Len(result.val) :
                IF op = "fetch_balances"
                THEN SpendingNormalization(fetch_res.val[i], result.val[i])
                ELSE CollateralNormalization(fetch_res.val[i], result.val[i])
    /\ (op = "raw_balances_from" /\ pc = "done") =>
          /\ Len(output) = Len(input.details)
          /\ \A i \in 1..Len(output) : SpendingNormalization(input.details[i], output[i])

C24_Witness ==
    /\ op = "fetch_collateral_balances" /\ pc = "done" /\ result.ok
    /\ Len(result.val) = 3
    /\ fetch_res.val[1].avail_bal = <<Dec(3, 1)>>
    /\ result.val[1] = [symbol |-> "btc", free |-> Dec(5, 1), used |-> Zero, total |-> Dec(5, 1)]
    /\ result.val[2].total = Zero

\* the driver operations that start with a REST fetch
DriverFetchOps ==
    PagedOps \cup {"fetch_balances", "fetch_collateral_balances",
                   "fetch_funding_rate_transactions"}

FetchFailed == FetchReturned /\ ~fetch_res.ok

FundingFeeBills == {i \in 1..Len(fetch_res.val) : fetch_res.val[i].type_ = 8}

\* C25: a driver operation never aborts; when its call to the exchange fails
\* it returns that failure to its caller unchanged; in particular
\* fetch_funding_rate_transactions returns the error of a failed account-bills
\* fetch, and for every bill list it receives it returns one transaction per
\* bill of type 8.
C25_CallFailureHandedToCaller ==
    /\ pc # "aborted"
    /\ (op \in DriverFetchOps /\ pc = "done" /\ FetchFailed) => result = fetch_res
    /\ (op = "fetch_funding_rate_transactions" /\ pc = "done" /\ fetch_res.ok) =>
          /\ result.ok
          /\ Len(result.val[1]) = Cardinality(FundingFeeBills)

ValidEventTag(m) == m.event \in {"login", "subscribe", "error"}

\* C26: an inbound message is classified by trial in the order Event,
\* Subscription, RequestResult: a message of the event shape is an Event also
\* when it carries arg/data or op/id fields; a message with arg and data and no
\* valid event tag is a Subscription; a RequestResult is only a message of
\* neither earlier shape that has one of the three op tags with id, data, code
\* and msg; every message gets one class or none.
C26_ClassifiedInFixedOrder ==
    (op = "from_str" /\ pc = "done") =>
        LET m == input
            event_shape ==
                \/ m.event = "login"
                \/ m.event = "subscribe" /\ m.arg = "ok"
                \/ m.event = "error" /\ m.code # ""
            subscription_shape == m.arg = "ok" /\ m.data # ""
        IN  /\ event_shape => output = "Event"
            /\ (subscription_shape /\ ~ValidEventTag(m)) => output = "Subscription"
            /\ (subscription_shape /\ ~event_shape) => output = "Subscription"
            /\ output = "RequestResult" =>
                  /\ ~event_shape /\ ~subscription_shape
                  /\ m.op \in {"order", "cancel-order", "batch-cancel-orders"}
                  /\ m.id /\ m.data # "" /\ m.code # "" /\ m.msg
            /\ output \in {"Event", "Subscription", "RequestResult", "Err"}

C26_Witness ==
    /\ op = "from_str" /\ pc = "done"
    /\ input = [event |-> "subscribe", arg |-> "ok", data |-> "results", op |-> "order",
                id |-> TRUE, code |-> "num", msg |-> TRUE]
    /\ output = "Event"

\* C27: a pending request is resolved at most once (no waiter gets two
\* deliveries), a tagged response is delivered to at most one waiter, and
\* every delivery is caused by a tagged request result or by the closure of
\* the channel, never by a lifecycle event or a subscription push.
C27_ResolvedAtMostOnceByRequestResults ==
    op = "correlate" =>
        /\ \A i, j \in 1..Len(deliveries) :
              (i # j) =>
                  /\ deliveries[i].waiter # deliveries[j].waiter
                  /\ (deliveries[i].cause # 0) => deliveries[i].cause # deliveries[j].cause
        /\ \A i \in 1..Len(deliveries) :
              IF deliveries[i].cause = 0 THEN deliveries[i].outcome = "failed"
              ELSE /\ deliveries[i].outcome = "resolved"
                   /\ inbound[deliveries[i].cause].class = "RequestResult"
                   /\ inbound[deliveries[i].cause].id = deliveries[i].id
        /\ \A i \in 1..Len(deliveries), e \in Range(pending) :
              deliveries[i].waiter # e.waiter

C27_Witness ==
    /\ op = "correlate" /\ pc = "done"
    /\ Len(deliveries) = 2
    /\ deliveries[1].outcome = "resolved" /\ deliveries[1].id = "r1"
    /\ deliveries[2].outcome = "failed" /\ deliveries[2].id = "r2"
    /\ Len(inbound) = 3
    /\ inbound[1] = [class |-> "Event", id |-> "r2"]
    /\ inbound[2] = [class |-> "RequestResult", id |-> "r1"]
    /\ inbound[3] = [class |-> "RequestResult", id |-> "r1"]

\* the exchange's fee value of the fetched trade a returned trade was built from
ExchangeFeeOf(raw_trade) ==
    (CHOOSE t \in Range(fetch_res.val) : t.trade_id = raw_trade.trade_id).fee

\* C28: every trade returned by fetch_trades_since and by
\* fetch_all_trades_since reports as fee_amount the negation of the exchange's
\* fee value of that trade, so both operations report the same fee_amount for
\* the same exchange trade record.
C28_FeeAmountIsNegatedFee ==
    (op \in {"fetch_trades_since", "fetch_all_trades_since"} /\ pc = "done" /\ result.ok)
        => \A i \in 1..Len(result.val) :
              result.val[i].fee_amount = <<0 - ExchangeFeeOf(result.val[i])>>

\* the ids the REST batch cancel of the call confirmed
RestConfirmedIds == IF rest_res.ok THEN Range(rest_res.val) ELSE {}

\* C30: a successful cancel_all returns every id confirmed cancelled during
\* the call by either path: the ids the streaming batch cancel confirmed are in
\* the result together with the ids the REST batch cancel confirmed.
C30_ResultHoldsIdsOfBothPaths ==
    (op = "cancel_all" /\ pc = "done" /\ result.ok /\ WsReturned /\ ws_res.ok)
        => (Range(ws_res.val) \cup RestConfirmedIds) \subseteq Range(result.val)

====
